---- MODULE Spec2Model ----
(***************************************************************************)
(* A model of the BayesDash inference engine (class BayesianCalculator)    *)
(* and of the React components that drive it.                              *)
(*                                                                         *)
(* Numbers.  JavaScript numbers are modelled as exact rationals            *)
(* [num, den] in lowest terms with den > 0; the value with den = 0 is NaN  *)
(* (the result of 0/0), and every comparison with NaN is false, as in      *)
(* JavaScript.  Rounding of IEEE doubles is not modelled.                  *)
(***************************************************************************)
EXTENDS Integers, Sequences, FiniteSets, TLC

VARIABLES
    alpha, beta, monteCarloSamples,   \* the fields of the BayesianCalculator
    post, prev,                       \* the last calculatePosterior call, and the one before
    ci,                               \* the last calculateCredibleInterval call
    op,                               \* the last call of another one-step operation
    mcTop, mcPc,                      \* Monte Carlo estimators: the call made, its position
    mcPostA, mcPostB,                 \*   the posteriors passed
    samplesA, samplesB,               \*   the arrays of the running frame
    probBGreater,                     \*   calculateExpectedLoss's local probBGreater
    mcRet,                            \*   the value returned
    dataA, dataB, threshold,          \* sequentialTest: its arguments
    seqPc, i, results,                \*   its position, loop index and result list
    cfPostA, cfPostB,                 \* calculateProbabilityBGreaterThanA: its arguments
    cfPc, cfI, probability,           \*   its position, loop index and running sum
    cfRet,                            \*   the value returned
    smpAlpha, smpBeta,                \* sampleBeta: its arguments
    smpMethod, smpPc,                 \*   the sampler chosen and its position
    smpU1, smpU2, smpAttempts,        \*   the last two Math.random() draws, turns made
    smpRet,                           \*   the value returned
    sf,                               \* the last betaPDF / betaCDF call
    variantA, variantB,               \* ABTestInput: the state of its inputs
    prior, priorPreset,               \*   its prior and the preset chosen
    testData,                         \* BayesianABDashboard: the data analysed
    activeTab, currentPrior,          \*   its tab and the prior handed up to it
    generatedData, pendingData,       \*   the scenario data received, and data on its way
    selectedPrior, showCustom,        \* InteractivePriorSelection: its state
    customAlpha, customBeta,
    chosen,                           \* history: the last prior chosen there by the user
    isInitialized, db,                \* DatabaseService: its fields (db: a handle was obtained)
    idb, localStorage,                \*   the IndexedDB object stores and the localStorage items
    clock,                            \*   Date.now()
    saved, written,                   \*   history: results stored and preferences updated
    dbCall                            \*   the last call completed

calcVars == <<alpha, beta, monteCarloSamples>>
postVars == <<post, prev, ci, op>>
mcVars == <<mcTop, mcPc, mcPostA, mcPostB, samplesA, samplesB, probBGreater, mcRet>>
seqVars == <<dataA, dataB, threshold, seqPc, i, results>>
cfVars == <<cfPostA, cfPostB, cfPc, cfI, probability, cfRet>>
distVars == <<smpAlpha, smpBeta, smpMethod, smpPc, smpU1, smpU2, smpAttempts, smpRet, sf>>
boardVars == <<activeTab, currentPrior, generatedData, pendingData,
               selectedPrior, showCustom, customAlpha, customBeta, chosen>>
dbVars == <<isInitialized, db, idb, localStorage, clock, saved, written, dbCall>>
dashVars == <<variantA, variantB, prior, priorPreset, testData, boardVars, dbVars>>
vars == <<alpha, beta, monteCarloSamples, post, prev, ci, op,
          mcTop, mcPc, mcPostA, mcPostB, samplesA, samplesB, probBGreater, mcRet,
          dataA, dataB, threshold, seqPc, i, results,
          cfPostA, cfPostB, cfPc, cfI, probability, cfRet,
          smpAlpha, smpBeta, smpMethod, smpPc, smpU1, smpU2, smpAttempts, smpRet, sf,
          variantA, variantB, prior, priorPreset, testData,
          activeTab, currentPrior, generatedData, pendingData,
          selectedPrior, showCustom, customAlpha, customBeta, chosen,
          isInitialized, db, idb, localStorage, clock, saved, written, dbCall>>

(***************************************************************************)
(* Rational arithmetic                                                     *)
(***************************************************************************)
Abs(x) == IF x < 0 THEN -x ELSE x

Min(x, y) == IF x <= y THEN x ELSE y

RECURSIVE GCD(_, _)
GCD(x, y) == IF y = 0 THEN x ELSE GCD(y, x % y)

NaN == [num |-> 0, den |-> 0]

IsNaN(r) == r.den = 0

\* n / d as a JavaScript division of two finite numbers (0/0 is NaN; the
\* model never divides a non-zero number by zero).
Rat(n, d) ==
    IF d = 0 THEN NaN
    ELSE LET g == GCD(Abs(n), Abs(d))
             s == IF d < 0 THEN -1 ELSE 1
         IN  [num |-> (s * n) \div g, den |-> (s * d) \div g]

Int2R(n) == [num |-> n, den |-> 1]

\* sums are taken over the least common denominator, which keeps the
\* integers small
RAdd(a, b) ==
    IF IsNaN(a) \/ IsNaN(b) THEN NaN
    ELSE LET g == GCD(a.den, b.den)
         IN  Rat(a.num * (b.den \div g) + b.num * (a.den \div g),
                 a.den * (b.den \div g))

RNeg(a) == [num |-> -a.num, den |-> a.den]

RSub(a, b) == RAdd(a, RNeg(b))

RMul(a, b) ==
    IF IsNaN(a) \/ IsNaN(b) THEN NaN
    ELSE Rat(a.num * b.num, a.den * b.den)

RDiv(a, b) ==
    IF IsNaN(a) \/ IsNaN(b) THEN NaN
    ELSE Rat(a.num * b.den, a.den * b.num)

\* a < b, a <= b, a > b, a >= b: false when either side is NaN
RLt(a, b) == ~IsNaN(a) /\ ~IsNaN(b) /\ a.num * b.den < b.num * a.den
RLe(a, b) == ~IsNaN(a) /\ ~IsNaN(b) /\ a.num * b.den <= b.num * a.den
RGt(a, b) == RLt(b, a)
RGe(a, b) == RLe(b, a)

RZero == Int2R(0)
ROne == Int2R(1)
RHalf == Rat(1, 2)

(***************************************************************************)
(* Priors                                                                  *)
(***************************************************************************)
BetaParams(a, b) == [alpha |-> a, beta |-> b]

\* the five presets offered by ABTestInput and InteractivePriorSelection
priorPresets ==
    [ uniform      |-> BetaParams(Int2R(1), Int2R(1)),
      jeffreys     |-> BetaParams(RHalf, RHalf),
      conservative |-> BetaParams(Int2R(2), Int2R(2)),
      optimistic   |-> BetaParams(Int2R(2), Int2R(8)),
      pessimistic  |-> BetaParams(Int2R(1), Int2R(9)) ]

PresetNames == DOMAIN priorPresets

Priors == {priorPresets[k] : k \in PresetNames}

(***************************************************************************)
(* Posterior layer                                                         *)
(***************************************************************************)
\* calculatePosterior(successes, trials, alpha = this.alpha, beta = this.beta):
\* the second definition in the class body, which replaces the first.  No
\* argument is validated and nothing is thrown.
calculatePosteriorNoFailures(successes, trials, a, b) ==
    [alpha |-> RAdd(a, Int2R(successes)), beta |-> RAdd(b, Int2R(trials))]

calculatePosteriorSwapped(successes, trials, a, b) ==
    [alpha |-> RAdd(a, Int2R(trials - successes)), beta |-> RAdd(b, Int2R(successes))]

calculatePosteriorRemembering(successes, trials, a, b) ==
    LET before == IF post.called THEN post.successes ELSE 0
    IN  [alpha |-> RAdd(a, Int2R(successes + before)),
         beta |-> RAdd(b, Int2R(trials - successes))]

calculatePosterior(successes, trials, a, b) ==
    LET failures == trials - successes
    IN  [alpha |-> RAdd(a, Int2R(successes)), beta |-> RAdd(b, Int2R(failures))]

\* whether the call ends by throwing: its body has no throw statement and no
\* operation that can throw on numbers
calculatePosteriorThrows(successes, trials) == FALSE

(***************************************************************************)
(* Sampling and Monte Carlo estimation layer                               *)
(***************************************************************************)
MaxSamples == 2

Grid == 2

\* Values a Beta variate can take, on a grid of [0, 1].
SampleValues == {Rat(k, Grid) : k \in 0 .. Grid}

\* sampleBeta(alpha, beta): the values one call may return.  The draw comes
\* from Math.random(), so the value is a nondeterministic choice; the two
\* acceptance loops behind it are not unfolded here.
sampleBeta(a, b) == SampleValues

\* the counting loop of calculateProbabilityBGreaterThanAMonteCarlo:
\* for (i = 0; i < n; i++) if (samplesB[i] > samplesA[i]) count++
RECURSIVE CountTiesToo(_, _, _)
CountTiesToo(sA, sB, n) ==
    IF n = 0 THEN 0
    ELSE CountTiesToo(sA, sB, n - 1) + (IF RGe(sB[n], sA[n]) THEN 1 ELSE 0)

RECURSIVE CountBGreater(_, _, _)
CountBGreater(sA, sB, n) ==
    IF n = 0 THEN 0
    ELSE CountBGreater(sA, sB, n - 1) + (IF RGt(sB[n], sA[n]) THEN 1 ELSE 0)

\* return count / this.monteCarloSamples
ProbabilityFromSamples(sA, sB, n) == Rat(CountBGreater(sA, sB, n), n)

RMax0(r) == IF RGt(r, RZero) THEN r ELSE RZero

\* the summing loop of calculateExpectedLoss:
\* lossA += Math.max(0, samplesB[i] - samplesA[i]), and lossB the other way
RECURSIVE LossSum(_, _, _)
LossSum(sX, sY, n) ==
    IF n = 0 THEN RZero
    ELSE RAdd(LossSum(sX, sY, n - 1), RMax0(RSub(sY[n], sX[n])))

\* { lossA: lossA / n, lossB: lossB / n, probBGreater }
ExpectedLossFromSamples(sA, sB, n, p) ==
    [lossA |-> RDiv(LossSum(sA, sB, n), Int2R(n)),
     lossB |-> RDiv(LossSum(sB, sA, n), Int2R(n)),
     probBGreater |-> p]

NoRet == [kind |-> "none"]

IdleMC ==
    /\ mcTop = "none"
    /\ mcPc = "idle"
    /\ mcPostA = BetaParams(ROne, ROne)
    /\ mcPostB = BetaParams(ROne, ROne)
    /\ samplesA = <<>>
    /\ samplesB = <<>>
    /\ probBGreater = NaN
    /\ mcRet = NoRet

(***************************************************************************)
(* Sequential testing layer                                                *)
(***************************************************************************)
MaxLen == 2

\* the arrays monteCarloSample(posterior, n) can return: n calls of sampleBeta
SampleArrays(n) == [1 .. n -> SampleValues]

\* what calculateProbabilityBGreaterThanAMonteCarlo can return with sample
\* count n: one value per pair of arrays it can draw
ProbabilityTable ==
    [n \in 0 .. MaxSamples |->
        {ProbabilityFromSamples(sA, sB, n) :
            sA \in SampleArrays(n), sB \in SampleArrays(n)}]

\* what calculateExpectedLoss can return: probBGreater from one call of the
\* estimator, the losses from two arrays drawn after it
ExpectedLossTable ==
    [n \in 0 .. MaxSamples |->
        {ExpectedLossFromSamples(sA, sB, n, p) :
            sA \in SampleArrays(n), sB \in SampleArrays(n),
            p \in ProbabilityTable[n]}]

\* the record's field:
\* shouldStop: probBGreater >= threshold || probBGreater <= (1 - threshold)
shouldStopUpperOnly(p, thr) == RGe(p, thr)

shouldStop(p, thr) == RGe(p, thr) \/ RLe(p, RSub(ROne, thr))

\* the test that guards break:
\* if (probBGreater >= threshold || probBGreater <= (1 - threshold)) break
breakNever(p, thr) == FALSE

breakUpperOnly(p, thr) == RGe(p, thr)

breakCondition(p, thr) == RGe(p, thr) \/ RLe(p, RSub(ROne, thr))

\* the bound of the for loop: Math.min(dataA.length, dataB.length)
loopBoundOfA(dA, dB) == Len(dA)

loopBound(dA, dB) == Min(Len(dA), Len(dB))

\* data[i] for a 0-based i: undefined past the end of the array
undefined == [undefined |-> TRUE]

ArrayRead(data, k) == IF k + 1 \in DOMAIN data THEN data[k + 1] ELSE undefined

IdleSeq ==
    /\ dataA = <<>>
    /\ dataB = <<>>
    /\ threshold = Rat(95, 100)
    /\ seqPc = "idle"
    /\ i = 0
    /\ results = <<>>

(***************************************************************************)
(* Special-function layer and the closed-form superiority probability.     *)
(* Shape parameters are positive integers here, for which                  *)
(* exp(logGamma(a) + logGamma(b) - logGamma(a + b)) is the rational        *)
(* (a-1)! (b-1)! / (a+b-1)!; the error of the Lanczos series is not        *)
(* modelled.                                                               *)
(***************************************************************************)
\* numPoints of calculateProbabilityBGreaterThanA and of betaCDF (1000 in the
\* code), scaled down
NumPoints == 4

RECURSIVE Factorial(_)
Factorial(n) == IF n <= 1 THEN 1 ELSE n * Factorial(n - 1)

RECURSIVE RPow(_, _)
RPow(x, k) == IF k = 0 THEN ROne ELSE RMul(x, RPow(x, k - 1))

\* betaFunction(alpha, beta)
betaFunction(a, b) ==
    Rat(Factorial(a.num - 1) * Factorial(b.num - 1), Factorial(a.num + b.num - 1))

\* betaPDF(x, alpha, beta): exp((alpha-1) log x + (beta-1) log(1-x) - logBeta).
\* A shape of 0 makes logGamma(0) = log(pi) - log(sin(0)) - logGamma(1) =
\* +Infinity: with one such shape logBeta is +Infinity and the result is
\* exp(-Infinity) = 0, with both logBeta is Infinity - Infinity = NaN and so
\* is the result.  Nothing is validated and nothing is thrown.
betaPDFOpenAtOne(x, a, b) ==
    IF RLe(x, RZero) \/ RGt(x, ROne) THEN RZero
    ELSE IF a.num = 0 /\ b.num = 0 THEN NaN
    ELSE IF a.num = 0 \/ b.num = 0 THEN RZero
    ELSE RDiv(RMul(RPow(x, a.num - 1), RPow(RSub(ROne, x), b.num - 1)),
              betaFunction(a, b))

betaPDF(x, a, b) ==
    IF RLe(x, RZero) \/ RGe(x, ROne) THEN RZero
    ELSE IF a.num = 0 /\ b.num = 0 THEN NaN
    ELSE IF a.num = 0 \/ b.num = 0 THEN RZero
    ELSE RDiv(RMul(RPow(x, a.num - 1), RPow(RSub(ROne, x), b.num - 1)),
              betaFunction(a, b))

\* the loop of betaCDF: cdf += betaPDF((i / numPoints) * x) * x / numPoints
RECURSIVE CDFSum(_, _, _, _)
CDFSum(x, a, b, n) ==
    IF n = 0 THEN RZero
    ELSE RAdd(CDFSum(x, a, b, n - 1),
              RDiv(RMul(betaPDF(RMul(Rat(n - 1, NumPoints), x), a, b), x),
                   Int2R(NumPoints)))

\* betaCDF(x, alpha, beta)
betaCDF(x, a, b) ==
    IF RLe(x, RZero) THEN RZero
    ELSE IF RGe(x, ROne) THEN ROne
    ELSE CDFSum(x, a, b, NumPoints)

\* the term added by turn i of the loop of calculateProbabilityBGreaterThanA:
\* x = i / numPoints; pdfA * cdfB / numPoints
Integrand(k, pA, pB) ==
    LET x == Rat(k, NumPoints)
        pdfA == betaPDF(x, pA.alpha, pA.beta)
        cdfB == betaCDF(x, pB.alpha, pB.beta)
    IN  RDiv(RMul(pdfA, cdfB), Int2R(NumPoints))

\* Math.max(0, Math.min(1, probability))
Clamp01(r) == IF RLt(r, RZero) THEN RZero ELSE IF RGt(r, ROne) THEN ROne ELSE r

IdleCF ==
    /\ cfPostA = BetaParams(ROne, ROne)
    /\ cfPostB = BetaParams(ROne, ROne)
    /\ cfPc = "idle"
    /\ cfI = 0
    /\ probability = RZero
    /\ cfRet = NaN

(***************************************************************************)
(* Beta sampling: sampleBeta and its two acceptance loops.                 *)
(* The shapes passed are those for which every quantity the loops compute  *)
(* is a rational (or NaN): 1/shape an integer in the rejection sampler,    *)
(* lambda zero, NaN or the root of a square in Cheng's.                    *)
(***************************************************************************)
\* 1 / 0 and Math.pow(0, negative).  Sums and comparisons treat it as they
\* treat NaN, which gives what JavaScript gives where the samplers use it:
\* Infinity + y <= 1 is false.
Infinity == [num |-> 1, den |-> 0]

\* values Math.random() returns, in [0, 1)
RandomDraws == {RZero, Rat(1, 5), RHalf, Rat(4, 5)}

\* the integer root of a square
ISqrt(n) == CHOOSE k \in 0 .. n : k * k = n

\* Math.sqrt of a square of a rational; of a negative number it is NaN
RSqrt(r) ==
    IF IsNaN(r) \/ r.num < 0 THEN NaN
    ELSE Rat(ISqrt(r.num), ISqrt(r.den))

\* Math.pow(u, 1 / shape) for u in [0, 1) and 1/shape an integer, or
\* Infinity when shape is 0
PowInverse(u, shape) ==
    IF shape.num = 0 THEN RZero
    ELSE IF shape.num > 0 THEN RPow(u, shape.den)
    ELSE IF u = RZero THEN Infinity
    ELSE RDiv(ROne, RPow(u, shape.den))

Rejected == [accepted |-> FALSE, value |-> NaN]

Accepted(v) == [accepted |-> TRUE, value |-> v]

\* one turn of the loop of sampleBetaRejection with the draws u1, u2
RejectionDraw(a, b, u1, u2) ==
    LET x == PowInverse(u1, a)
        y == PowInverse(u2, b)
    IN  IF RLe(RAdd(x, y), ROne) THEN Accepted(RDiv(x, RAdd(x, y)))
        ELSE Rejected

\* Math.min and Math.max of two numbers (NaN if either is)
RMin(a, b) == IF IsNaN(a) \/ IsNaN(b) THEN NaN ELSE IF RLe(a, b) THEN a ELSE b

RMax(a, b) == IF IsNaN(a) \/ IsNaN(b) THEN NaN ELSE IF RLe(a, b) THEN b ELSE a

\* sampleBetaCheng: lambda = Math.sqrt((gamma - 2) / (2 * a * b - gamma))
ChengLambda(a, b) ==
    LET gamma == RAdd(a, b)
    IN  RSqrt(RDiv(RSub(gamma, Int2R(2)),
                   RSub(RMul(Int2R(2), RMul(a, b)), gamma)))

\* x to the power e, for e an integer or half of one
RPowR(x, e) ==
    IF e.den = 1 THEN RPow(x, e.num) ELSE RPow(RSqrt(x), e.num)

\* the value returned on acceptance
ChengAlwaysFirstForm(shapeAlpha, a, b, w) == RDiv(w, RAdd(b, w))

ChengReturnValue(shapeAlpha, a, b, w) ==
    IF shapeAlpha = a THEN RDiv(w, RAdd(b, w)) ELSE RDiv(b, RAdd(b, w))

\* sampleBetaCheng: v = lambda * Math.log(u1 / (1 - u1)) enters the loop only
\* through Math.exp(v) = odds^lambda; for u1 = 0 it is exp(-Infinity) = 0
ChengExpV(lambda, u1) ==
    IF u1 = RZero THEN RZero ELSE RPowR(RDiv(u1, RSub(ROne, u1)), lambda)

\* w = a * Math.exp(v)
ChengW(a, lambda, u1) == RMul(a, ChengExpV(lambda, u1))

\* One turn of the loop of sampleBetaCheng with the draws u1, u2.  With
\* odds = u1 / (1 - u1): exp(v) = odds^lambda, w = a * exp(v) and
\* exp(mu * v) = exp(v)^a * odds, so the test
\*   gamma * log(gamma / (b + w)) + mu * v - 1.3862944 >= log(u1 * u1 * u2)
\* is (gamma / (b + w))^gamma * exp(v)^a * odds * exp(-1.3862944) >= u1^2 * u2.
\* exp(-1.3862944) is below 1/4 by less than one part in 10^7, so the test is
\* passed exactly when the left side with 1/4 is greater than the right.
\*  - lambda NaN: v and w are NaN and the test is false.
\*  - lambda 0: mu is an infinity, v is 0 or NaN, mu * v is NaN: false.
\*  - u1 = 0: v = -Infinity, w = 0, both sides are -Infinity: true.
ChengDraw(shapeAlpha, shapeBeta, u1, u2) ==
    LET a == RMin(shapeAlpha, shapeBeta)
        b == RMax(shapeAlpha, shapeBeta)
        gamma == RAdd(a, b)
        lambda == ChengLambda(a, b)
    IN  IF IsNaN(lambda) \/ lambda = RZero THEN Rejected
        ELSE IF u1 = RZero THEN Accepted(ChengReturnValue(shapeAlpha, a, b, RZero))
        ELSE LET odds == RDiv(u1, RSub(ROne, u1))
                 expV == ChengExpV(lambda, u1)
                 w == ChengW(a, lambda, u1)
                 lhs == RDiv(RMul(RMul(RPow(RDiv(gamma, RAdd(b, w)), gamma.num),
                                       RPow(expV, a.num)),
                                  odds),
                             Int2R(4))
                 rhs == RMul(RMul(u1, u1), u2)
             IN  IF RGt(lhs, rhs) THEN Accepted(ChengReturnValue(shapeAlpha, a, b, w))
                 ELSE Rejected

\* sampleBeta: if (alpha <= 1 && beta <= 1) the rejection sampler, else Cheng's
useRejectionIfEither(a, b) == RLe(a, ROne) \/ RLe(b, ROne)

useRejection(a, b) == RLe(a, ROne) /\ RLe(b, ROne)

NoSF == [called |-> FALSE]

IdleDist ==
    /\ smpAlpha = ROne
    /\ smpBeta = ROne
    /\ smpMethod = "none"
    /\ smpPc = "idle"
    /\ smpU1 = RZero
    /\ smpU2 = RZero
    /\ smpAttempts = 0
    /\ smpRet = NaN
    /\ sf = NoSF

(***************************************************************************)
(* Credible intervals                                                      *)
(***************************************************************************)
\* Math.sqrt of a number in [0, 1] is kept to a multiple of 1 / SqrtScale,
\* rounded down
SqrtScale == 100

SqrtDown(r) ==
    IF IsNaN(r) \/ r.num < 0 THEN NaN
    ELSE LET n == (SqrtScale * SqrtScale * r.num) \div r.den
         IN  Rat(CHOOSE k \in 0 .. SqrtScale : k * k <= n /\ n < (k + 1) * (k + 1),
                 SqrtScale)

\* calculateExpectedValue(posterior): alpha / (alpha + beta)
calculateExpectedValue(posterior) ==
    RDiv(posterior.alpha, RAdd(posterior.alpha, posterior.beta))

\* (alpha * beta) / ((alpha + beta) ** 2 * (alpha + beta + 1))
calculateVariance(posterior) ==
    LET a == posterior.alpha
        b == posterior.beta
        sum == RAdd(a, b)
    IN  RDiv(RMul(a, b), RMul(RMul(sum, sum), RAdd(sum, ROne)))

\* confidence levels passed, 0.95 being the default
Confidences == {Rat(1, 2), Rat(4, 5), Rat(9, 10), Rat(95, 100), Rat(99, 100)}

\* inverseNormalCDF(p) at p = 1 - (1 - confidence) / 2 for the confidence
\* levels above: the value of the code's rational approximation (the central
\* branch for p <= 0.97575, the upper tail branch for p = 0.995), cut to
\* three decimals
inverseNormalCDF(p) ==
    CASE p = Rat(3, 4) -> Rat(674, 1000)
      [] p = Rat(9, 10) -> Rat(1281, 1000)
      [] p = Rat(95, 100) -> Rat(1644, 1000)
      [] p = Rat(975, 1000) -> Rat(1959, 1000)
      [] p = Rat(995, 1000) -> Rat(2575, 1000)

\* calculateCredibleInterval(posterior, confidence = 0.95)
calculateCredibleIntervalUnclamped(posterior, confidence) ==
    LET alpha_level == RDiv(RSub(ROne, confidence), Int2R(2))
        mean == calculateExpectedValue(posterior)
        stdDev == SqrtDown(calculateVariance(posterior))
        z == inverseNormalCDF(RSub(ROne, alpha_level))
        margin == RMul(z, stdDev)
    IN  [lower |-> RSub(mean, margin), upper |-> RAdd(mean, margin)]

calculateCredibleInterval(posterior, confidence) ==
    LET alpha_level == RDiv(RSub(ROne, confidence), Int2R(2))
        mean == calculateExpectedValue(posterior)
        stdDev == SqrtDown(calculateVariance(posterior))
        z == inverseNormalCDF(RSub(ROne, alpha_level))
        margin == RMul(z, stdDev)
    IN  [lower |-> RMax(RZero, RSub(mean, margin)),
         upper |-> RMin(ROne, RAdd(mean, margin))]

(***************************************************************************)
(* The dashboard and ABTestInput                                           *)
(***************************************************************************)
\* useState(null) of testData
NoData == [present |-> FALSE]

\* the user has not chosen a prior in InteractivePriorSelection
NoChoice == [made |-> FALSE]

(***************************************************************************)
(* DatabaseService: IndexedDB with a localStorage fallback.  Values        *)
(* of JavaScript are written as their literals.                            *)
(***************************************************************************)
\* the keys of user preferences
PreferenceKeys == {"theme"}

\* no record under a key of an object store, no property in an object
undefinedValue == "undefined"

\* values passed to updatePreference
PreferenceValues == {"0", "false", "''", "'dark'"}

\* JSON.parse(JSON.stringify(v)) of a property value
JSONValue(v) == IF v = "NaN" THEN "null" ELSE v

\* the values that || skips
Falsy(v) == v \in {"0", "false", "''", "NaN", "null", "undefined"}

NoPreferences == [k \in PreferenceKeys |-> undefinedValue]

EmptyStores == [testConfigs |-> <<>>, testResults |-> <<>>, userPreferences |-> NoPreferences]

\* what the calls so far have written and not cleared: for each key the value
\* of the last updatePreference and the storage it went to
NothingWritten == [k \in PreferenceKeys |-> [value |-> undefinedValue, storage |-> "none"]]

NoDbCall == [called |-> FALSE]

\* constructor(): isInitialized = false, no db; nothing stored by this page yet
IdleDb ==
    /\ isInitialized = FALSE
    /\ db = FALSE
    /\ idb = EmptyStores
    /\ localStorage = EmptyStores
    /\ clock = 0
    /\ saved = {}
    /\ written = NothingWritten
    /\ dbCall = NoDbCall

\* the state the components are created with: useState({successes: 0, trials: 0}),
\* useState({alpha: 1, beta: 1}), useState('uniform'), useState(null)
IdleDash ==
    /\ variantA = [successes |-> 0, trials |-> 0]
    /\ variantB = [successes |-> 0, trials |-> 0]
    /\ prior = BetaParams(Int2R(1), Int2R(1))
    /\ priorPreset = "uniform"
    /\ testData = NoData
    /\ activeTab = "basic"
    /\ currentPrior = BetaParams(Int2R(1), Int2R(1))
    /\ generatedData = NoData
    /\ pendingData = NoData
    /\ selectedPrior = "uniform"
    /\ showCustom = FALSE
    /\ customAlpha = Int2R(1)
    /\ customBeta = Int2R(1)
    /\ chosen = NoChoice
    /\ IdleDb

(***************************************************************************)
(* Specification SpecPost: calls of calculatePosterior on a calculator     *)
(* whose prior fields callers may reassign between calls.                  *)
(***************************************************************************)
MaxObs == 3

\* the observations of the spec's concrete scenario
ScenarioObs == {<<150, 1000>>, <<180, 1000>>}

\* arguments a caller can pass: any two integers (nothing restricts them to
\* 0 <= successes <= trials)
ObsArgs == ((-1 .. MaxObs) \X (-1 .. MaxObs)) \cup ScenarioObs

NoCall == [called |-> FALSE]

\* constructor(alpha = 1, beta = 1)
DefaultMonteCarloSamples == 10000

InitCalc ==
    /\ alpha = Int2R(1)
    /\ beta = Int2R(1)
    /\ monteCarloSamples = DefaultMonteCarloSamples

IdlePost == post = NoCall /\ prev = NoCall /\ ci = NoCall /\ op = NoCall

InitPost ==
    /\ InitCalc
    /\ IdlePost
    /\ IdleMC
    /\ IdleSeq
    /\ IdleCF
    /\ IdleDist
    /\ IdleDash

\* a component assigns calculator.alpha / calculator.beta
SetPrior ==
    /\ \E p \in Priors : alpha' = p.alpha /\ beta' = p.beta
    /\ UNCHANGED <<monteCarloSamples, postVars, mcVars, seqVars, cfVars, distVars, dashVars>>

CallCalculatePosterior ==
    /\ \E o \in ObsArgs :
         post' = [called |-> TRUE, successes |-> o[1], trials |-> o[2],
                  prior |-> BetaParams(alpha, beta),
                  threw |-> calculatePosteriorThrows(o[1], o[2]),
                  result |-> calculatePosterior(o[1], o[2], alpha, beta)]
    /\ prev' = post
    /\ UNCHANGED <<ci, op>>
    /\ UNCHANGED <<calcVars, mcVars, seqVars, cfVars, distVars, dashVars>>

NextPost == SetPrior \/ CallCalculatePosterior

SpecPost == InitPost /\ [][NextPost]_vars

(***************************************************************************)
(* Specification SpecMC: one call of                                       *)
(* calculateProbabilityBGreaterThanAMonteCarlo or calculateExpectedLoss,   *)
(* unfolded draw by draw.  The sample count is the calculator's            *)
(* monteCarloSamples field, set by the caller to a small value (0 too).    *)
(***************************************************************************)
\* posteriors passed to the estimators
MCPosteriors ==
    {BetaParams(Int2R(2), Int2R(2)), BetaParams(Int2R(3), Int2R(1))}

InitMC ==
    /\ alpha = Int2R(1)
    /\ beta = Int2R(1)
    /\ monteCarloSamples \in 0 .. MaxSamples
    /\ IdlePost
    /\ IdleMC
    /\ IdleSeq
    /\ IdleCF
    /\ IdleDist
    /\ IdleDash

\* calculateProbabilityBGreaterThanAMonteCarlo(posteriorA, posteriorB) is called
CallProbabilityMC ==
    /\ mcPc = "idle"
    /\ \E pA \in MCPosteriors, pB \in MCPosteriors :
         mcPostA' = pA /\ mcPostB' = pB
    /\ mcTop' = "prob"
    /\ mcPc' = "prob_sampleA"
    /\ UNCHANGED <<calcVars, postVars, seqVars, cfVars, distVars, dashVars, samplesA, samplesB, probBGreater, mcRet>>

\* calculateExpectedLoss(posteriorA, posteriorB) is called; its first statement
\* calls calculateProbabilityBGreaterThanAMonteCarlo
CallExpectedLoss ==
    /\ mcPc = "idle"
    /\ \E pA \in MCPosteriors, pB \in MCPosteriors :
         mcPostA' = pA /\ mcPostB' = pB
    /\ mcTop' = "loss"
    /\ mcPc' = "prob_sampleA"
    /\ UNCHANGED <<calcVars, postVars, seqVars, cfVars, distVars, dashVars, samplesA, samplesB, probBGreater, mcRet>>

\* monteCarloSample(posteriorA, this.monteCarloSamples): one turn of its loop
SampleA ==
    /\ mcPc \in {"prob_sampleA", "loss_sampleA"}
    /\ Len(samplesA) < monteCarloSamples
    /\ \E x \in sampleBeta(mcPostA.alpha, mcPostA.beta) :
         samplesA' = Append(samplesA, x)
    /\ UNCHANGED <<calcVars, postVars, seqVars, cfVars, distVars, dashVars, mcTop, mcPc, mcPostA, mcPostB, samplesB,
                   probBGreater, mcRet>>

\* its loop ends and the array is returned
SampleADone ==
    /\ mcPc \in {"prob_sampleA", "loss_sampleA"}
    /\ ~(Len(samplesA) < monteCarloSamples)
    /\ mcPc' = IF mcPc = "prob_sampleA" THEN "prob_sampleB" ELSE "loss_sampleB"
    /\ UNCHANGED <<calcVars, postVars, seqVars, cfVars, distVars, dashVars, mcTop, mcPostA, mcPostB, samplesA, samplesB,
                   probBGreater, mcRet>>

\* monteCarloSample(posteriorB, this.monteCarloSamples): one turn of its loop
SampleB ==
    /\ mcPc \in {"prob_sampleB", "loss_sampleB"}
    /\ Len(samplesB) < monteCarloSamples
    /\ \E x \in sampleBeta(mcPostB.alpha, mcPostB.beta) :
         samplesB' = Append(samplesB, x)
    /\ UNCHANGED <<calcVars, postVars, seqVars, cfVars, distVars, dashVars, mcTop, mcPc, mcPostA, mcPostB, samplesA,
                   probBGreater, mcRet>>

SampleBDone ==
    /\ mcPc \in {"prob_sampleB", "loss_sampleB"}
    /\ ~(Len(samplesB) < monteCarloSamples)
    /\ mcPc' = IF mcPc = "prob_sampleB" THEN "prob_count" ELSE "loss_sum"
    /\ UNCHANGED <<calcVars, postVars, seqVars, cfVars, distVars, dashVars, mcTop, mcPostA, mcPostB, samplesA, samplesB,
                   probBGreater, mcRet>>

\* the counting loop and the return of calculateProbabilityBGreaterThanAMonteCarlo,
\* to its caller
ProbabilityReturn ==
    /\ mcPc = "prob_count"
    /\ mcTop = "prob"
    /\ mcRet' = [kind |-> "prob",
                 value |-> ProbabilityFromSamples(samplesA, samplesB, monteCarloSamples)]
    /\ mcPc' = "done"
    /\ UNCHANGED <<calcVars, postVars, seqVars, cfVars, distVars, dashVars, mcTop, mcPostA, mcPostB, samplesA, samplesB,
                   probBGreater>>

\* the same, returning into calculateExpectedLoss: the callee's arrays are gone
\* and calculateExpectedLoss goes on to draw its own
ProbabilityReturnToLoss ==
    /\ mcPc = "prob_count"
    /\ mcTop = "loss"
    /\ probBGreater' = ProbabilityFromSamples(samplesA, samplesB, monteCarloSamples)
    /\ samplesA' = <<>>
    /\ samplesB' = <<>>
    /\ mcPc' = "loss_sampleA"
    /\ UNCHANGED <<calcVars, postVars, seqVars, cfVars, distVars, dashVars, mcTop, mcPostA, mcPostB, mcRet>>

\* the summing loop and the return of calculateExpectedLoss
ExpectedLossReturn ==
    /\ mcPc = "loss_sum"
    /\ mcRet' = [kind |-> "loss",
                 value |-> ExpectedLossFromSamples(samplesA, samplesB,
                                                   monteCarloSamples, probBGreater)]
    /\ mcPc' = "done"
    /\ UNCHANGED <<calcVars, postVars, seqVars, cfVars, distVars, dashVars, mcTop, mcPostA, mcPostB, samplesA, samplesB,
                   probBGreater>>

NextMC ==
    \/ CallProbabilityMC
    \/ CallExpectedLoss
    \/ SampleA
    \/ SampleADone
    \/ SampleB
    \/ SampleBDone
    \/ ProbabilityReturn
    \/ ProbabilityReturnToLoss
    \/ ExpectedLossReturn

SpecMC == InitMC /\ [][NextMC]_vars

(***************************************************************************)
(* Specification SpecSeq: one call of sequentialTest(dataA, dataB,         *)
(* threshold), one loop turn per step.                                     *)
(***************************************************************************)
Observation(s, t) == [successes |-> s, trials |-> t]

\* the observations a series is made of
SeqObs == {Observation(0, 1), Observation(1, 2), Observation(2, 2)}

SeqSeries == UNION {[1 .. n -> SeqObs] : n \in 0 .. MaxLen}

\* thresholds passed: the default 0.95, 0.5 and 0.25
Thresholds == {Rat(95, 100), Rat(1, 2), Rat(1, 4)}

SeqPriors == {priorPresets.uniform, priorPresets.jeffreys}

InitSeq ==
    /\ \E p \in SeqPriors : alpha = p.alpha /\ beta = p.beta
    /\ monteCarloSamples \in 0 .. MaxSamples
    /\ IdlePost
    /\ IdleMC
    /\ IdleSeq
    /\ IdleCF
    /\ IdleDist
    /\ IdleDash

\* sequentialTest(dataA, dataB, threshold) is entered: results = [], i = 0
CallSequentialTest ==
    /\ seqPc = "idle"
    /\ dataA' \in SeqSeries
    /\ dataB' \in SeqSeries
    /\ threshold' \in Thresholds
    /\ seqPc' = "loop"
    /\ i' = 0
    /\ results' = <<>>
    /\ UNCHANGED <<calcVars, postVars, mcVars, cfVars, distVars, dashVars>>

\* One turn of the for loop.  Reading .successes of undefined throws a
\* TypeError, which ends the call.  calculateExpectedLoss is called and returns
\* some value; the record pushed carries it as its expectedLoss field, which
\* no statement of sequentialTest reads, and the model's record leaves that one
\* field out.
SequentialStep ==
    /\ seqPc = "loop"
    /\ i < loopBound(dataA, dataB)
    /\ LET a == ArrayRead(dataA, i)
           b == ArrayRead(dataB, i)
       IN  IF a = undefined \/ b = undefined
           THEN /\ seqPc' = "threw"
                /\ UNCHANGED <<i, results>>
           ELSE LET posteriorA == calculatePosterior(a.successes, a.trials, alpha, beta)
                    posteriorB == calculatePosterior(b.successes, b.trials, alpha, beta)
                IN  \E p \in ProbabilityTable[monteCarloSamples] :
                      /\ ExpectedLossTable[monteCarloSamples] # {}
                      /\ results' = Append(results,
                                           [step |-> i + 1,
                                            probBGreater |-> p,
                                            posteriorA |-> posteriorA,
                                            posteriorB |-> posteriorB,
                                            shouldStop |-> shouldStop(p, threshold)])
                      /\ IF breakCondition(p, threshold)
                         THEN seqPc' = "done" /\ i' = i
                         ELSE seqPc' = "loop" /\ i' = i + 1
    /\ UNCHANGED <<calcVars, postVars, mcVars, cfVars, distVars, dashVars, dataA, dataB, threshold>>

\* the loop condition fails: return results
SequentialReturnConsumingData ==
    /\ seqPc = "loop"
    /\ ~(i < loopBound(dataA, dataB))
    /\ seqPc' = "done"
    /\ dataA' = <<>>
    /\ dataB' = <<>>
    /\ UNCHANGED <<calcVars, postVars, mcVars, cfVars, distVars, dashVars, threshold, i, results>>

SequentialReturn ==
    /\ seqPc = "loop"
    /\ ~(i < loopBound(dataA, dataB))
    /\ seqPc' = "done"
    /\ UNCHANGED <<calcVars, postVars, mcVars, cfVars, distVars, dashVars, dataA, dataB, threshold, i, results>>

NextSeq == CallSequentialTest \/ SequentialStep \/ SequentialReturn

SpecSeq == InitSeq /\ [][NextSeq]_vars

(***************************************************************************)
(* Properties of sequentialTest (under SpecSeq)                            *)
(***************************************************************************)
RECURSIVE SumSuccesses(_, _)
SumSuccesses(data, k) ==
    IF k = 0 THEN 0 ELSE SumSuccesses(data, k - 1) + data[k].successes

RECURSIVE SumTrials(_, _)
SumTrials(data, k) ==
    IF k = 0 THEN 0 ELSE SumTrials(data, k - 1) + data[k].trials

\* the posterior of the arm's totals over steps 1..k
CumulativePosterior(data, k) ==
    [alpha |-> RAdd(alpha, Int2R(SumSuccesses(data, k))),
     beta  |-> RAdd(beta, Int2R(SumTrials(data, k) - SumSuccesses(data, k)))]

\* C1: the posteriors of emitted step k are the prior plus the arm's
\* cumulative totals over steps 1..k (so the totals behind consecutive steps
\* never decrease), not the prior plus the k-th observation alone.
C1_PosteriorsAreCumulative ==
    monteCarloSamples > 0 =>
        \A k \in 1 .. Len(results) :
            /\ results[k].posteriorA = CumulativePosterior(dataA, k)
            /\ results[k].posteriorB = CumulativePosterior(dataB, k)

LastStops == Len(results) > 0 /\ results[Len(results)].shouldStop

\* C2: the list ends at the first record whose shouldStop is true: records
\* carry the step numbers 1, 2, ... in order, only the last one can have
\* shouldStop, nothing is evaluated after it, and a call in which no step
\* stops returns one record per processed index.
C2_EndsAtFirstStop ==
    /\ \A k \in 1 .. Len(results) : results[k].step = k
    /\ \A k \in 1 .. Len(results) - 1 : ~results[k].shouldStop
    /\ LastStops => seqPc = "done"
    /\ (seqPc = "done" /\ ~LastStops) =>
           Len(results) = Min(Len(dataA), Len(dataB))

\* a call that stopped at its first step, before the end of both series
C2_Witness ==
    /\ seqPc = "done"
    /\ Len(results) = 1
    /\ results[1].shouldStop
    /\ Len(dataA) > 1
    /\ Len(dataB) > 1

\* the call left the loop through break
BrokeOut == seqPc = "done" /\ i < Min(Len(dataA), Len(dataB))

\* C3: in every record shouldStop is true exactly when probBGreater is
\* >= threshold or <= 1 - threshold, and the loop breaks exactly when the
\* newest record's probability meets that same condition.
C3_StopIffThresholdMet ==
    /\ \A k \in 1 .. Len(results) :
         LET p == results[k].probBGreater
             t == threshold
         IN  results[k].shouldStop <=>
               /\ p.den # 0
               /\ \/ p.num * t.den >= t.num * p.den
                  \/ p.num * t.den <= (t.den - t.num) * p.den
    /\ seqPc # "idle" => (BrokeOut <=> LastStops)

\* the default threshold 0.95: a first step that goes on, a second one that
\* stops on the low side (probBGreater <= 0.05)
C3_Witness ==
    /\ threshold = Rat(95, 100)
    /\ Len(results) = 2
    /\ ~results[1].shouldStop
    /\ results[2].shouldStop
    /\ results[2].probBGreater = RZero

\* C4: only indices below the shorter length are processed: the number of
\* records never exceeds min(length of dataA, length of dataB), it is 0 when
\* either series is empty, and no element past the end of a series is read.
C4_BoundedByShorterSeries ==
    /\ Len(results) <= Min(Len(dataA), Len(dataB))
    /\ (Len(dataA) = 0 \/ Len(dataB) = 0) => Len(results) = 0
    /\ seqPc # "threw"
    /\ seqPc = "loop" => i = Len(results)

\* series of different lengths, processed to the end of the shorter one
C4_Witness ==
    /\ seqPc = "done"
    /\ Len(dataA) = 2
    /\ Len(dataB) = 1
    /\ Len(results) = 1
    /\ ~results[1].shouldStop

(***************************************************************************)
(* Properties of calculatePosterior (under SpecPost)                       *)
(***************************************************************************)
\* C5: for every prior and every observation with 0 <= successes <= trials
\* the posterior is exactly (prior.alpha + successes, prior.beta + trials -
\* successes); prior (1,1) with (150,1000) gives (151,851) and with
\* (180,1000) gives (181,821).
C5_PosteriorIsPriorPlusCounts ==
    (post.called /\ 0 <= post.successes /\ post.successes <= post.trials) =>
        /\ ~post.threw
        /\ RSub(post.result.alpha, post.prior.alpha) = Int2R(post.successes)
        /\ RSub(post.result.beta, post.prior.beta)
             = Int2R(post.trials - post.successes)
        /\ (post.prior = priorPresets.uniform /\ post.trials = 1000) =>
             /\ post.successes = 150 =>
                  post.result = BetaParams(Int2R(151), Int2R(851))
             /\ post.successes = 180 =>
                  post.result = BetaParams(Int2R(181), Int2R(821))

\* the scenario's arm B under the uniform prior
C5_Witness ==
    /\ post.called
    /\ post.prior = priorPresets.uniform
    /\ post.successes = 180
    /\ post.trials = 1000
    /\ post.result = BetaParams(Int2R(181), Int2R(821))

InvalidObservation(s, t) == t < s \/ s < 0 \/ t < 0

\* C6: a call with trials < successes, or with a negative successes or
\* trials, fails (InvalidObservation) and returns no posterior.
C6_InvalidObservationRejected ==
    (post.called /\ InvalidObservation(post.successes, post.trials)) => post.threw

(***************************************************************************)
(* Properties of the Monte Carlo estimators (under SpecMC)                 *)
(***************************************************************************)
\* the indices at which the B-sample exceeds the A-sample in the arrays of
\* the frame
BGreaterIndices ==
    {k \in DOMAIN samplesA \cap DOMAIN samplesB :
        samplesB[k].num * samplesA[k].den > samplesA[k].num * samplesB[k].den}

LossReturned == mcPc = "done" /\ mcTop = "loss"

\* C8: calculateExpectedLoss computes lossA, lossB and the probBGreater it
\* returns from the same n sample pairs: probBGreater is the fraction of the
\* pairs summed into the losses in which the B-sample exceeds the A-sample,
\* so lossA > 0 exactly when probBGreater > 0.
C8_LossAndProbabilityShareSamples ==
    (LossReturned /\ monteCarloSamples > 0) =>
        /\ mcRet.value.probBGreater
             = Rat(Cardinality(BGreaterIndices), monteCarloSamples)
        /\ RGt(mcRet.value.lossA, RZero) <=> RGt(mcRet.value.probBGreater, RZero)

ProbabilityReturned == mcPc = "done" /\ mcTop = "prob"

\* C10: with sample count n > 0 the estimator draws exactly n samples from
\* each posterior and returns (number of indices with sampleB > sampleA) / n,
\* a value in [0, 1]; a tie is not counted as B greater.
C10_FractionOfPairsBGreater ==
    (ProbabilityReturned /\ monteCarloSamples > 0) =>
        /\ Len(samplesA) = monteCarloSamples
        /\ Len(samplesB) = monteCarloSamples
        /\ mcRet.value.den # 0
        /\ mcRet.value.num * monteCarloSamples
             = Cardinality(BGreaterIndices) * mcRet.value.den
        /\ 0 <= mcRet.value.num
        /\ mcRet.value.num <= mcRet.value.den

\* two pairs, one a tie and one with the B-sample greater: the result is 1/2
C10_Witness ==
    /\ ProbabilityReturned
    /\ monteCarloSamples = 2
    /\ samplesA[1] = samplesB[1]
    /\ RGt(samplesB[2], samplesA[2])
    /\ mcRet.value = RHalf

(***************************************************************************)
(* Specification SpecDash: the Basic Analysis tab.  Every action is an     *)
(* event handler of ABTestInput together with the effect React runs after  *)
(* the state change it makes.                                              *)
(***************************************************************************)
MaxInput == 2

\* what parseInt(e.target.value) || 0 gives for the numbers typed: an integer,
\* here from 0 up (the inputs carry min="0")
InputValues == 0 .. MaxInput

\* The useEffect of ABTestInput, run with the state vA, vB, pr after a change
\* of variantA, variantB or prior; onDataChange is the dashboard's setTestData.
ABTestInputEffect(vA, vB, pr) ==
    /\ alpha' = pr.alpha
    /\ beta' = pr.beta
    /\ IF vA.trials > 0 /\ vB.trials > 0
       THEN LET posteriorA == calculatePosterior(vA.successes, vA.trials,
                                                 pr.alpha, pr.beta)
                posteriorB == calculatePosterior(vB.successes, vB.trials,
                                                 pr.alpha, pr.beta)
            IN  testData' =
                  [present |-> TRUE,
                   variantA |-> [successes |-> vA.successes, trials |-> vA.trials,
                                 posterior |-> posteriorA],
                   variantB |-> [successes |-> vB.successes, trials |-> vB.trials,
                                 posterior |-> posteriorB],
                   prior |-> pr]
       ELSE UNCHANGED testData

\* onChange of a Successes input: setVariantX(prev => ({...prev, successes}))
EditSuccesses ==
    /\ \E x \in InputValues :
         \/ /\ variantA' = [variantA EXCEPT !.successes = x]
            /\ UNCHANGED variantB
         \/ /\ variantB' = [variantB EXCEPT !.successes = x]
            /\ UNCHANGED variantA
    /\ ABTestInputEffect(variantA', variantB', prior)
    /\ UNCHANGED <<monteCarloSamples, postVars, mcVars, seqVars, cfVars, distVars, prior, priorPreset, boardVars, dbVars>>

\* onChange of a Total Trials input: setVariantX(prev => ({...prev, trials}))
EditTrials ==
    /\ \E x \in InputValues :
         \/ /\ variantA' = [variantA EXCEPT !.trials = x]
            /\ UNCHANGED variantB
         \/ /\ variantB' = [variantB EXCEPT !.trials = x]
            /\ UNCHANGED variantA
    /\ ABTestInputEffect(variantA', variantB', prior)
    /\ UNCHANGED <<monteCarloSamples, postVars, mcVars, seqVars, cfVars, distVars, prior, priorPreset, boardVars, dbVars>>

\* handlePresetChange(presetName): setPrior(preset); setPriorPreset(presetName)
handlePresetChange ==
    /\ \E presetName \in PresetNames :
         /\ prior' = priorPresets[presetName]
         /\ priorPreset' = presetName
    /\ ABTestInputEffect(variantA, variantB, prior')
    /\ UNCHANGED <<monteCarloSamples, postVars, mcVars, seqVars, cfVars, distVars, variantA, variantB, boardVars, dbVars>>

InitDash ==
    /\ InitCalc
    /\ IdlePost
    /\ IdleMC
    /\ IdleSeq
    /\ IdleCF
    /\ IdleDist
    /\ IdleDash

NextDash == EditSuccesses \/ EditTrials \/ handlePresetChange

SpecDash == InitDash /\ [][NextDash]_vars

(***************************************************************************)
(* Properties of the posteriors handed on by ABTestInput (under SpecDash)  *)
(***************************************************************************)
Positive(params) == RGt(params.alpha, RZero) /\ RGt(params.beta, RZero)

\* C7: every posterior passed to onDataChange, whatever the edits of the
\* successes and trials inputs and the priors chosen, has alpha > 0 and
\* beta > 0.
C7_PosteriorsArePositive ==
    testData.present =>
        /\ Positive(testData.variantA.posterior)
        /\ Positive(testData.variantB.posterior)

(***************************************************************************)
(* Specification SpecCF: one call of calculateProbabilityBGreaterThanA,    *)
(* one turn of its integration loop per step.                              *)
(***************************************************************************)
MaxShape == 3

\* posteriors with integer shapes, alpha + beta <= MaxShape + 1
CFPosteriors ==
    {BetaParams(Int2R(ab[1]), Int2R(ab[2])) :
        ab \in {q \in (1 .. MaxShape) \X (1 .. MaxShape) : q[1] + q[2] <= MaxShape + 1}}

InitCF ==
    /\ InitCalc
    /\ IdlePost
    /\ IdleMC
    /\ IdleSeq
    /\ IdleCF
    /\ IdleDist
    /\ IdleDash

\* calculateProbabilityBGreaterThanA(posteriorA, posteriorB) is entered
CallClosedForm ==
    /\ cfPc = "idle"
    /\ cfPostA' \in CFPosteriors
    /\ cfPostB' \in CFPosteriors
    /\ cfPc' = "loop"
    /\ cfI' = 0
    /\ probability' = RZero
    /\ UNCHANGED <<calcVars, postVars, mcVars, seqVars, distVars, dashVars, cfRet>>

\* one turn of the for loop
IntegrationStep ==
    /\ cfPc = "loop"
    /\ cfI < NumPoints
    /\ probability' = RAdd(probability, Integrand(cfI, cfPostA, cfPostB))
    /\ cfI' = cfI + 1
    /\ UNCHANGED <<calcVars, postVars, mcVars, seqVars, distVars, dashVars,
                   cfPostA, cfPostB, cfPc, cfRet>>

ClosedFormReturn ==
    /\ cfPc = "loop"
    /\ ~(cfI < NumPoints)
    /\ cfRet' = Clamp01(probability)
    /\ cfPc' = "done"
    /\ UNCHANGED <<calcVars, postVars, mcVars, seqVars, distVars, dashVars,
                   cfPostA, cfPostB, cfI, probability>>

NextCF == CallClosedForm \/ IntegrationStep \/ ClosedFormReturn

SpecCF == InitCF /\ [][NextCF]_vars

(***************************************************************************)
(* Closed form against Monte Carlo (under SpecCF)                          *)
(***************************************************************************)
\* The interior points of the quadrature grid, where a Beta density is positive.
GridPoints == {Rat(k, NumPoints) : k \in 1 .. NumPoints - 1}

RECURSIVE RSum(_, _)
RSum(f, S) ==
    IF S = {} THEN RZero
    ELSE LET x == CHOOSE y \in S : TRUE
         IN  RAdd(f[x], RSum(f, S \ {x}))

\* The value calculateProbabilityBGreaterThanAMonteCarlo tends to as the
\* sample count grows: the probability that a B-sample exceeds an A-sample
\* (samplesB[i] > samplesA[i]) when the samples of each arm follow the arm's
\* Beta density, here restricted to the grid points.
MonteCarloLimit(pA, pB) ==
    LET wA == [x \in GridPoints |-> betaPDF(x, pA.alpha, pA.beta)]
        wB == [x \in GridPoints |-> betaPDF(x, pB.alpha, pB.beta)]
        pairs == GridPoints \X GridPoints
        mass == [q \in pairs |->
                    IF RGt(q[2], q[1]) THEN RMul(wA[q[1]], wB[q[2]]) ELSE RZero]
    IN  RDiv(RSum(mass, pairs), RMul(RSum(wA, GridPoints), RSum(wB, GridPoints)))

\* C9: the closed-form routine and the Monte Carlo routine estimate the same
\* P(theta_B > theta_A): when the Monte Carlo value lies clearly on one side
\* of 0.5 (at least 3/4, or at most 1/4), the closed-form result is not on
\* the other side.
C9_ClosedFormOnSameSide ==
    cfPc = "done" =>
        LET mc == MonteCarloLimit(cfPostA, cfPostB)
        IN  /\ RGe(mc, Rat(3, 4)) => RGe(cfRet, RHalf)
            /\ RLe(mc, Rat(1, 4)) => RLe(cfRet, RHalf)

(***************************************************************************)
(* Degenerate sample count (under SpecMC)                                  *)
(***************************************************************************)
\* C11: with a sample count of 0 the superiority-probability and
\* expected-loss estimators fail with an explicit error; they do not divide
\* by zero and return a NaN value.
C11_ZeroSamplesFailFast ==
    (mcPc = "done" /\ monteCarloSamples = 0) =>
        /\ mcRet.kind = "error"
        /\ mcRet.kind = "prob" => ~IsNaN(mcRet.value)
        /\ mcRet.kind = "loss" => ~IsNaN(mcRet.value.lossA)

(***************************************************************************)
(* Specification SpecDist: the Beta distribution layer.  A behaviour is    *)
(* either one call of sampleBeta, one turn of its acceptance loop per      *)
(* step, or calls of betaPDF and betaCDF.                                  *)
(***************************************************************************)
MaxAttempts == 2

\* shapes sent to the rejection sampler (both <= 1), 0 and -1 among them
RejectionShapes ==
    {Int2R(-1), RZero, RHalf, ROne} \X {Int2R(-1), RZero, RHalf, ROne}

\* shapes sent to Cheng's algorithm (one of them > 1)
ChengShapes ==
    {<<ROne, Int2R(2)>>, <<Int2R(2), ROne>>, <<ROne, Int2R(3)>>, <<Int2R(3), ROne>>,
     <<Int2R(4), Int2R(4)>>,
     <<RHalf, Rat(3, 2)>>, <<Rat(3, 2), RHalf>>, <<RHalf, Rat(5, 2)>>,
     <<RZero, Int2R(2)>>, <<Int2R(2), RZero>>}

SamplerShapes == RejectionShapes \cup ChengShapes

\* ChengDraw over the shapes and draws of the model, computed once: the
\* triples <<shapes, draws, outcome>>
ChengOutcomes ==
    {<<sh, u, ChengDraw(sh[1], sh[2], u[1], u[2])>> :
        sh \in ChengShapes, u \in RandomDraws \X RandomDraws}

ChengOutcome(a, b, u1, u2) ==
    (CHOOSE t \in ChengOutcomes : t[1] = <<a, b>> /\ t[2] = <<u1, u2>>)[3]

\* the same for RejectionDraw; shapes outside the table are computed
RejectionOutcomes ==
    {<<sh, u, RejectionDraw(sh[1], sh[2], u[1], u[2])>> :
        sh \in RejectionShapes, u \in RandomDraws \X RandomDraws}

RejectionOutcome(a, b, u1, u2) ==
    IF <<a, b>> \in RejectionShapes
    THEN (CHOOSE t \in RejectionOutcomes : t[1] = <<a, b>> /\ t[2] = <<u1, u2>>)[3]
    ELSE RejectionDraw(a, b, u1, u2)

\* arguments of betaPDF and betaCDF: points below, in and above [0, 1], and
\* integer shapes from 0 up
SFPoints == {Int2R(-1), RZero, Rat(1, 4), RHalf, Rat(3, 4), ROne, Int2R(2)}

SFShapes == {Int2R(k) : k \in 0 .. MaxShape}

\* whether the call ends by throwing: neither body has a throw statement
betaPDFThrows(x, a, b) == FALSE

betaCDFThrows(x, a, b) == FALSE

InitDist ==
    /\ InitCalc
    /\ IdlePost
    /\ IdleMC
    /\ IdleSeq
    /\ IdleCF
    /\ IdleDist
    /\ IdleDash

\* sampleBeta(alpha, beta) is called and picks its sampler
CallSampleBeta ==
    /\ smpPc = "idle"
    /\ ~sf.called
    /\ \E sh \in SamplerShapes :
         /\ smpAlpha' = sh[1]
         /\ smpBeta' = sh[2]
         /\ smpMethod' = IF useRejection(sh[1], sh[2]) THEN "rejection" ELSE "cheng"
    /\ smpPc' = "loop"
    /\ smpAttempts' = 0
    /\ UNCHANGED <<calcVars, postVars, mcVars, seqVars, cfVars, dashVars,
                   smpU1, smpU2, smpRet, sf>>

\* what one turn of a while (true) loop does with its outcome
SamplerTurn(u1, u2, outcome) ==
    /\ smpU1' = u1
    /\ smpU2' = u2
    /\ smpAttempts' = Min(smpAttempts + 1, MaxAttempts)
    /\ IF outcome.accepted
       THEN smpPc' = "returned" /\ smpRet' = outcome.value
       ELSE UNCHANGED <<smpPc, smpRet>>
    /\ UNCHANGED <<calcVars, postVars, mcVars, seqVars, cfVars, dashVars,
                   smpAlpha, smpBeta, smpMethod, sf>>

\* one turn of the loop of sampleBetaRejection
RejectionTurn ==
    /\ smpPc = "loop"
    /\ smpMethod = "rejection"
    /\ \E u1 \in RandomDraws, u2 \in RandomDraws :
         SamplerTurn(u1, u2, RejectionOutcome(smpAlpha, smpBeta, u1, u2))

\* one turn of the loop of sampleBetaCheng
ChengTurn ==
    /\ smpPc = "loop"
    /\ smpMethod = "cheng"
    /\ \E u1 \in RandomDraws, u2 \in RandomDraws :
         SamplerTurn(u1, u2, ChengOutcome(smpAlpha, smpBeta, u1, u2))

CallBetaPDF ==
    /\ smpPc = "idle"
    /\ \E x \in SFPoints, a \in SFShapes, b \in SFShapes :
         sf' = [called |-> TRUE, fn |-> "betaPDF", x |-> x, alpha |-> a, beta |-> b,
                threw |-> betaPDFThrows(x, a, b), result |-> betaPDF(x, a, b)]
    /\ UNCHANGED <<calcVars, postVars, mcVars, seqVars, cfVars, dashVars,
                   smpAlpha, smpBeta, smpMethod, smpPc, smpU1, smpU2, smpAttempts, smpRet>>

CallBetaCDF ==
    /\ smpPc = "idle"
    /\ \E x \in SFPoints, a \in SFShapes, b \in SFShapes :
         sf' = [called |-> TRUE, fn |-> "betaCDF", x |-> x, alpha |-> a, beta |-> b,
                threw |-> betaCDFThrows(x, a, b), result |-> betaCDF(x, a, b)]
    /\ UNCHANGED <<calcVars, postVars, mcVars, seqVars, cfVars, dashVars,
                   smpAlpha, smpBeta, smpMethod, smpPc, smpU1, smpU2, smpAttempts, smpRet>>

NextDist == CallSampleBeta \/ RejectionTurn \/ ChengTurn \/ CallBetaPDF \/ CallBetaCDF

SpecDist == InitDist /\ [][NextDist]_vars

\* One call of sampleBeta alone.  Its loops keep running: a turn that can be
\* taken is taken.
NextSampler == CallSampleBeta \/ RejectionTurn \/ ChengTurn

SpecSamplerFair ==
    InitDist /\ [][NextSampler]_vars /\ WF_vars(RejectionTurn) /\ WF_vars(ChengTurn)

(***************************************************************************)
(* Properties of the samplers (under SpecDist)                             *)
(***************************************************************************)
RejectionChosen == smpPc # "idle" /\ smpMethod = "rejection"

ChengChosen == smpPc # "idle" /\ smpMethod = "cheng"

\* x + y <= 1 for the x and y of the last turn's draws
LastDrawFits ==
    LET x == PowInverse(smpU1, smpAlpha)
        y == PowInverse(smpU2, smpBeta)
        s == RAdd(x, y)
    IN  s.den # 0 /\ s.num <= s.den

\* C12: sampleBeta uses the rejection sampler exactly when alpha <= 1 and
\* beta <= 1 and Cheng's algorithm for every other pair; the rejection
\* sampler returns x/(x+y) only for a draw with x + y <= 1, and draws again
\* after any other draw.
C12_SamplerChoiceAndRejectionRule ==
    smpPc # "idle" =>
        /\ RejectionChosen <=>
             (smpAlpha.num <= smpAlpha.den /\ smpBeta.num <= smpBeta.den)
        /\ ChengChosen <=>
             ~(smpAlpha.num <= smpAlpha.den /\ smpBeta.num <= smpBeta.den)
        /\ (RejectionChosen /\ smpPc = "returned") =>
             /\ LastDrawFits
             /\ smpRet = LET x == PowInverse(smpU1, smpAlpha)
                             y == PowInverse(smpU2, smpBeta)
                         IN  RDiv(x, RAdd(x, y))
        /\ (RejectionChosen /\ smpAttempts > 0 /\ ~LastDrawFits) => smpPc = "loop"

\* Beta(1/2, 1): a first draw rejected, a second one accepted
C12_Witness ==
    /\ RejectionChosen
    /\ smpPc = "returned"
    /\ smpAlpha = RHalf
    /\ smpBeta = ROne
    /\ smpAttempts = 2
    /\ smpRet = Rat(2, 27)

ChengReturned == ChengChosen /\ smpPc = "returned"

\* the turn sampleBetaCheng(beta, alpha) makes of the draws of the last turn
SwappedDraw == ChengDraw(smpBeta, smpAlpha, smpU1, smpU2)

\* the b and w of the accepting turn
LastB == RMax(smpAlpha, smpBeta)

LastW ==
    ChengW(RMin(smpAlpha, smpBeta),
           ChengLambda(RMin(smpAlpha, smpBeta), RMax(smpAlpha, smpBeta)), smpU1)

\* C13 as stated: on acceptance sampleBetaCheng returns w/(b+w) when alpha is
\* the smaller or equal shape and b/(b+w) when beta is the smaller one, and
\* the call with the shapes swapped and the same draws returns 1 minus the
\* value, for every pair of shapes.
C13_SwapGivesComplement ==
    ChengReturned =>
        /\ smpAlpha.num * smpBeta.den <= smpBeta.num * smpAlpha.den =>
             smpRet = RDiv(LastW, RAdd(LastB, LastW))
        /\ smpAlpha.num * smpBeta.den > smpBeta.num * smpAlpha.den =>
             smpRet = RDiv(LastB, RAdd(LastB, LastW))
        /\ SwappedDraw.accepted
        /\ SwappedDraw.value = RSub(ROne, smpRet)

\* C13 amended: the two return forms are as stated; the call with the shapes
\* swapped and the same draws returns 1 minus the value when the shapes
\* differ, and the very same value when they are equal.
C13_SwapGivesComplementForUnequalShapes ==
    ChengReturned =>
        /\ smpAlpha.num * smpBeta.den <= smpBeta.num * smpAlpha.den =>
             smpRet = RDiv(LastW, RAdd(LastB, LastW))
        /\ smpAlpha.num * smpBeta.den > smpBeta.num * smpAlpha.den =>
             smpRet = RDiv(LastB, RAdd(LastB, LastW))
        /\ SwappedDraw.accepted
        /\ smpAlpha # smpBeta => SwappedDraw.value = RSub(ROne, smpRet)
        /\ smpAlpha = smpBeta => SwappedDraw.value = smpRet

\* Beta(3, 1), beta the smaller shape: u1 = 1/5 gives w = 1/4 and the value
\* b/(b+w) = 12/13
C13_Witness ==
    /\ ChengReturned
    /\ smpAlpha = Int2R(3)
    /\ smpBeta = ROne
    /\ smpU1 = Rat(1, 5)
    /\ smpRet = Rat(12, 13)

\* C14: the acceptance loops of sampleBetaRejection and sampleBetaCheng are
\* bounded: a call that has entered its loop leaves it, either returning a
\* sample or, once the retry ceiling is reached, signalling a sampling
\* failure.
C14_AcceptanceLoopsBounded ==
    (smpPc = "loop" /\ RGt(smpAlpha, RZero) /\ RGt(smpBeta, RZero))
        ~> (smpPc \in {"returned", "failed"})

(***************************************************************************)
(* Properties of betaPDF, betaCDF and sampleBeta at invalid shapes and at  *)
(* the edges of [0, 1] (under SpecDist)                                    *)
(***************************************************************************)
\* a non-positive alpha or beta
InvalidShapeParameters(a, b) == a.num <= 0 \/ b.num <= 0

\* C15: betaPDF, betaCDF and sampleBeta called with a non-positive alpha or
\* beta fail explicitly: the call throws (or returns an error value), it
\* neither returns NaN or another number nor enters its loop.
C15_InvalidShapesFailExplicitly ==
    /\ (sf.called /\ InvalidShapeParameters(sf.alpha, sf.beta)) => sf.threw
    /\ (smpPc # "idle" /\ InvalidShapeParameters(smpAlpha, smpBeta)) =>
           smpPc = "failed"

\* C16: for all shapes betaPDF returns 0 at every x <= 0 and every x >= 1,
\* betaCDF returns 0 at every x <= 0 and 1 at every x >= 1, and neither call
\* throws at such a point.
C16_BoundaryValues ==
    (sf.called /\ (sf.x.num <= 0 \/ sf.x.num >= sf.x.den)) =>
        /\ ~sf.threw
        /\ sf.fn = "betaPDF" => sf.result = RZero
        /\ (sf.fn = "betaCDF" /\ sf.x.num <= 0) => sf.result = RZero
        /\ (sf.fn = "betaCDF" /\ sf.x.num >= sf.x.den) => sf.result = ROne

\* betaPDF exactly at x = 1, with shapes for which the density formula would
\* not give 0 there
C16_Witness ==
    /\ sf.called
    /\ sf.fn = "betaPDF"
    /\ sf.x = ROne
    /\ sf.alpha = Int2R(2)
    /\ sf.beta = ROne
    /\ sf.result = RZero

(***************************************************************************)
(* Specification SpecCI: calls of calculateCredibleInterval.               *)
(***************************************************************************)
\* shapes of the posteriors passed: 1/2 and the integers from 1 up
CIShapes == {RHalf} \cup {Int2R(k) : k \in 1 .. MaxShape + 1}

InitCI ==
    /\ InitCalc
    /\ IdlePost
    /\ IdleMC
    /\ IdleSeq
    /\ IdleCF
    /\ IdleDist
    /\ IdleDash

CallCredibleInterval ==
    /\ \E a \in CIShapes, b \in CIShapes, c \in Confidences :
         ci' = [called |-> TRUE, posterior |-> BetaParams(a, b), confidence |-> c,
                result |-> calculateCredibleInterval(BetaParams(a, b), c)]
    /\ UNCHANGED <<calcVars, post, prev, op, mcVars, seqVars, cfVars, distVars, dashVars>>

NextCI == CallCredibleInterval

SpecCI == InitCI /\ [][NextCI]_vars

\* C17: for valid params (alpha > 0, beta > 0) and a confidence in (0, 1),
\* the bounds returned satisfy 0 <= lower <= mean(params) <= upper <= 1.
C17_IntervalContainsMean ==
    ci.called =>
        LET mean == calculateExpectedValue(ci.posterior)
            lower == ci.result.lower
            upper == ci.result.upper
        IN  /\ lower.den > 0 /\ upper.den > 0
            /\ 0 <= lower.num
            /\ lower.num * mean.den <= mean.num * lower.den
            /\ mean.num * upper.den <= upper.num * mean.den
            /\ upper.num <= upper.den

\* Beta(1/2, 4) at confidence 0.99: mean - margin is below 0 and the lower
\* bound is 0
C17_Witness ==
    /\ ci.called
    /\ ci.posterior = BetaParams(RHalf, Int2R(4))
    /\ ci.confidence = Rat(99, 100)
    /\ ci.result.lower = RZero
    /\ RLt(ci.result.upper, ROne)

(***************************************************************************)
(* Two calls of calculatePosterior compared (under SpecPost)               *)
(***************************************************************************)
\* the last two calls were made with the same prior
SamePrior == post.called /\ prev.called /\ post.prior = prev.prior

\* C18: for a fixed prior and fixed trials n, the mean alpha / (alpha + beta)
\* of calculatePosterior(s, n) does not decrease as s grows over 0 <= s <= n.
C18_MeanMonotoneInSuccesses ==
    (/\ SamePrior
     /\ post.trials = prev.trials
     /\ 0 <= prev.successes
     /\ prev.successes <= post.successes
     /\ post.successes <= post.trials) =>
        LET m1 == calculateExpectedValue(prev.result)
            m2 == calculateExpectedValue(post.result)
        IN  /\ m1.den > 0 /\ m2.den > 0
            /\ m1.num * m2.den <= m2.num * m1.den

\* uniform prior, 3 trials: 1 success and then 2 give the means 2/5 and 3/5
C18_Witness ==
    /\ SamePrior
    /\ post.prior = priorPresets.uniform
    /\ post.trials = 3 /\ prev.trials = 3
    /\ prev.successes = 1 /\ post.successes = 2
    /\ calculateExpectedValue(prev.result) = Rat(2, 5)
    /\ calculateExpectedValue(post.result) = Rat(3, 5)

posteriorPredictive(posterior, futureTrials) ==
    LET a == posterior.alpha
        b == posterior.beta
        sum == RAdd(a, b)
        n == Int2R(futureTrials)
    IN  [alpha |-> a,
         beta |-> b,
         trials |-> futureTrials,
         expectedSuccesses |-> RMul(RDiv(a, sum), n),
         variance |-> RDiv(RMul(n, RMul(RMul(a, b), RAdd(sum, n))),
                           RMul(RMul(sum, sum), RAdd(sum, ROne)))]

\* sensitivityAnalysis(successes, trials, priors): priors.map(...), the
\* interval taken at the default confidence
sensitivityAnalysisConfiguredPrior(successes, trials, priors) ==
    [k \in DOMAIN priors |->
        LET posterior == calculatePosterior(successes, trials, alpha, beta)
        IN  [prior |-> priors[k],
             posterior |-> posterior,
             expectedValue |-> calculateExpectedValue(posterior),
             credibleInterval |-> calculateCredibleInterval(posterior, Rat(95, 100))]]

sensitivityAnalysis(successes, trials, priors) ==
    [k \in DOMAIN priors |->
        LET posterior == calculatePosterior(successes, trials,
                                            priors[k].alpha, priors[k].beta)
        IN  [prior |-> priors[k],
             posterior |-> posterior,
             expectedValue |-> calculateExpectedValue(posterior),
             credibleInterval |-> calculateCredibleInterval(posterior, Rat(95, 100))]]

\* calculateEvidence(posterior)
calculateEvidence(posterior) == betaFunction(posterior.alpha, posterior.beta)

\* calculateBayesFactor(posteriorA, posteriorB)
calculateBayesFactor(posteriorA, posteriorB) ==
    RDiv(calculateEvidence(posteriorB), calculateEvidence(posteriorA))

\* observations with 0 <= successes <= trials
ValidObs == {o \in (0 .. MaxObs) \X (0 .. MaxObs) : o[1] <= o[2]}

\* arrays of priors passed to sensitivityAnalysis
PriorLists == UNION {[1 .. n -> SeqPriors] : n \in 0 .. MaxLen}

InitOps == InitSeq

\* no operation has been called on the calculator
NoOperationYet ==
    /\ post = NoCall
    /\ ci = NoCall
    /\ op = NoCall
    /\ mcPc = "idle"
    /\ seqPc = "idle"
    /\ cfPc = "idle"

CallPosteriorPredictive ==
    /\ \E p \in CFPosteriors, n \in 0 .. MaxObs :
         op' = [called |-> TRUE, name |-> "posteriorPredictive",
                posterior |-> p, futureTrials |-> n,
                result |-> posteriorPredictive(p, n)]
    /\ UNCHANGED <<calcVars, post, prev, ci, mcVars, seqVars, cfVars, distVars, dashVars>>

CallSensitivityAnalysis ==
    /\ \E o \in ValidObs, ps \in PriorLists :
         op' = [called |-> TRUE, name |-> "sensitivityAnalysis",
                successes |-> o[1], trials |-> o[2], priors |-> ps,
                result |-> sensitivityAnalysis(o[1], o[2], ps)]
    /\ UNCHANGED <<calcVars, post, prev, ci, mcVars, seqVars, cfVars, distVars, dashVars>>

CallBayesFactor ==
    /\ \E pA \in CFPosteriors, pB \in CFPosteriors :
         op' = [called |-> TRUE, name |-> "calculateBayesFactor",
                posteriorA |-> pA, posteriorB |-> pB,
                result |-> calculateBayesFactor(pA, pB)]
    /\ UNCHANGED <<calcVars, post, prev, ci, mcVars, seqVars, cfVars, distVars, dashVars>>

StartCalculatePosterior == NoOperationYet /\ CallCalculatePosterior
StartCredibleInterval == NoOperationYet /\ CallCredibleInterval
StartPosteriorPredictive == NoOperationYet /\ CallPosteriorPredictive
StartSensitivityAnalysis == NoOperationYet /\ CallSensitivityAnalysis
StartBayesFactor == NoOperationYet /\ CallBayesFactor
StartProbabilityMC == NoOperationYet /\ CallProbabilityMC
StartExpectedLoss == NoOperationYet /\ CallExpectedLoss
StartClosedForm == NoOperationYet /\ CallClosedForm
StartSequentialTest == NoOperationYet /\ CallSequentialTest

NextOps ==
    \/ StartCalculatePosterior
    \/ StartCredibleInterval
    \/ StartPosteriorPredictive
    \/ StartSensitivityAnalysis
    \/ StartBayesFactor
    \/ StartProbabilityMC
    \/ StartExpectedLoss
    \/ StartClosedForm
    \/ StartSequentialTest
    \/ SampleA
    \/ SampleADone
    \/ SampleB
    \/ SampleBDone
    \/ ProbabilityReturn
    \/ ProbabilityReturnToLoss
    \/ ExpectedLossReturn
    \/ IntegrationStep
    \/ ClosedFormReturn
    \/ SequentialStep
    \/ SequentialReturn

SpecOps == InitOps /\ [][NextOps]_vars

\* C20: no step of any operation changes the calculator's alpha, beta or
\* monteCarloSamples, and once an operation holds its input posteriors or
\* observation lists no step of it changes them.
C20_OperationsChangeNoFieldAndNoInput ==
    [][/\ UNCHANGED <<alpha, beta, monteCarloSamples>>
       /\ (seqPc # "idle" => UNCHANGED <<dataA, dataB, threshold>>)
       /\ (mcPc # "idle" => UNCHANGED <<mcPostA, mcPostB>>)
       /\ (cfPc # "idle" => UNCHANGED <<cfPostA, cfPostB>>)]_vars

\* sequentialTest has returned two records for two lists of two observations,
\* on a calculator that still carries the Jeffreys prior
C20_Witness ==
    /\ seqPc = "done"
    /\ Len(results) = 2
    /\ Len(dataA) = 2 /\ Len(dataB) = 2
    /\ BetaParams(alpha, beta) = priorPresets.jeffreys
    /\ monteCarloSamples = MaxSamples

(***************************************************************************)
(* Specification SpecBoard: BayesianABDashboard with its shared            *)
(* calculator, InteractivePriorSelection and ABTestInput on the tab        *)
(* 'basic', and the scenario generator on the tab 'scenarios'.  One step   *)
(* is one user action or timer, with the effects React runs after it.      *)
(* A component that is not mounted keeps the state it will be created      *)
(* with.                                                                   *)
(***************************************************************************)
Tabs == {"basic", "scenarios"}

\* the cards clicked and the presets picked, of the five of each component
BoardPresets == {"uniform", "jeffreys"}

\* position a slider of the custom prior is moved to
SliderValues == {Int2R(3)}

\* the numbers typed into the inputs of ABTestInput
BoardMaxInput == 1

BoardInputs ==
    /\ variantA.successes <= BoardMaxInput
    /\ variantA.trials <= BoardMaxInput
    /\ variantB.successes <= BoardMaxInput
    /\ variantB.trials <= BoardMaxInput
    /\ priorPreset \in BoardPresets

\* data built by generateLiveData: both variants with trials = dailyTraffic
\* and fewer successes than trials, here scaled down to MaxInput trials and
\* no success for variant A
GeneratedData ==
    {[present |-> TRUE,
      variantA |-> [successes |-> a, trials |-> MaxInput],
      variantB |-> [successes |-> b, trials |-> MaxInput]] :
        a \in {0}, b \in 0 .. MaxInput - 1}

\* the testData built by the dashboard's effect on generatedData, run with
\* the dashboard's currentPrior cp and the calculator's fields a, b
GeneratedDataEffect(gd, cp, a, b) ==
    [present |-> TRUE,
     variantA |-> [successes |-> gd.variantA.successes, trials |-> gd.variantA.trials,
                   posterior |-> calculatePosterior(gd.variantA.successes,
                                                    gd.variantA.trials, a, b)],
     variantB |-> [successes |-> gd.variantB.successes, trials |-> gd.variantB.trials,
                   posterior |-> calculatePosterior(gd.variantB.successes,
                                                    gd.variantB.trials, a, b)],
     prior |-> cp]

\* The useEffect of InteractivePriorSelection run with the prior p:
\* onPriorChange(p) is the dashboard's setCurrentPrior, the calculator is
\* synced, and the dashboard's effect on [generatedData, calculator,
\* currentPrior] runs again after the render that follows.
PriorSelectionEffect(p) ==
    /\ currentPrior' = p
    /\ alpha' = p.alpha
    /\ beta' = p.beta
    /\ testData' = IF generatedData.present
                   THEN GeneratedDataEffect(generatedData, p, p.alpha, p.beta)
                   ELSE testData

\* the user's action in InteractivePriorSelection ended with the prior p
Choose(p) == chosen' = [made |-> TRUE, prior |-> p]

\* handlePriorSelect(priorKey), on a card that is not the active one
handlePriorSelect ==
    /\ activeTab = "basic"
    /\ \E priorKey \in BoardPresets :
         /\ priorKey # selectedPrior \/ showCustom
         /\ selectedPrior' = priorKey
         /\ showCustom' = FALSE
         /\ PriorSelectionEffect(priorPresets[priorKey])
         /\ Choose(priorPresets[priorKey])
    /\ UNCHANGED <<monteCarloSamples, postVars, mcVars, seqVars, cfVars, distVars, dbVars,
                   variantA, variantB, prior, priorPreset,
                   activeTab, generatedData, pendingData, customAlpha, customBeta>>

\* handleCustomToggle()
handleCustomToggle ==
    /\ activeTab = "basic"
    /\ showCustom' = ~showCustom
    /\ IF ~showCustom
       THEN /\ customAlpha' = priorPresets[selectedPrior].alpha
            /\ customBeta' = priorPresets[selectedPrior].beta
       ELSE UNCHANGED <<customAlpha, customBeta>>
    /\ PriorSelectionEffect(priorPresets[selectedPrior])
    /\ Choose(priorPresets[selectedPrior])
    /\ UNCHANGED <<monteCarloSamples, postVars, mcVars, seqVars, cfVars, distVars, dbVars,
                   variantA, variantB, prior, priorPreset,
                   activeTab, generatedData, pendingData, selectedPrior>>

\* onChange of a slider of the custom prior: setCustomAlpha / setCustomBeta
moveSlider ==
    /\ activeTab = "basic"
    /\ showCustom
    /\ \E v \in SliderValues :
         \/ /\ v # customAlpha
            /\ customAlpha' = v
            /\ UNCHANGED customBeta
         \/ /\ v # customBeta
            /\ customBeta' = v
            /\ UNCHANGED customAlpha
    /\ PriorSelectionEffect(BetaParams(customAlpha', customBeta'))
    /\ Choose(BetaParams(customAlpha', customBeta'))
    /\ UNCHANGED <<monteCarloSamples, postVars, mcVars, seqVars, cfVars, distVars, dbVars,
                   variantA, variantB, prior, priorPreset,
                   activeTab, generatedData, pendingData, selectedPrior, showCustom>>

\* the three handlers of ABTestInput, which is rendered on the tab 'basic'
BoardEditSuccesses == activeTab = "basic" /\ EditSuccesses /\ BoardInputs'
BoardEditTrials == activeTab = "basic" /\ EditTrials /\ BoardInputs'
BoardPresetChange == activeTab = "basic" /\ handlePresetChange /\ BoardInputs'

\* setActiveTab(tab).  Leaving 'basic' unmounts InteractivePriorSelection and
\* ABTestInput; entering it mounts them with their initial state and runs
\* their effects (the calculator gets the uniform prior twice, setCurrentPrior
\* gets a new object), after which the effect on generatedData runs again.
setActiveTab ==
    /\ \E tab \in Tabs :
         /\ tab # activeTab
         /\ activeTab' = tab
         /\ IF tab = "basic"
            THEN PriorSelectionEffect(priorPresets.uniform)
            ELSE UNCHANGED <<alpha, beta, currentPrior, testData>>
    /\ variantA' = [successes |-> 0, trials |-> 0]
    /\ variantB' = [successes |-> 0, trials |-> 0]
    /\ prior' = BetaParams(Int2R(1), Int2R(1))
    /\ priorPreset' = "uniform"
    /\ selectedPrior' = "uniform"
    /\ showCustom' = FALSE
    /\ customAlpha' = Int2R(1)
    /\ customBeta' = Int2R(1)
    /\ UNCHANGED <<monteCarloSamples, postVars, mcVars, seqVars, cfVars, distVars, dbVars,
                   generatedData, pendingData, chosen>>

\* handleScenarioSelect(scenario): generateLiveData builds the data and
\* hands it to onDataGenerated from a timer, two seconds later
handleScenarioSelect ==
    /\ activeTab = "scenarios"
    /\ ~pendingData.present
    /\ pendingData' \in GeneratedData
    /\ UNCHANGED <<calcVars, postVars, mcVars, seqVars, cfVars, distVars, dbVars,
                   variantA, variantB, prior, priorPreset, testData,
                   activeTab, currentPrior, generatedData,
                   selectedPrior, showCustom, customAlpha, customBeta, chosen>>

\* the timer fires: onDataGenerated(data) is the dashboard's setGeneratedData,
\* and the effect on generatedData runs
GenerationTimeout ==
    /\ pendingData.present
    /\ generatedData' = pendingData
    /\ pendingData' = NoData
    /\ testData' = GeneratedDataEffect(pendingData, currentPrior, alpha, beta)
    /\ UNCHANGED <<calcVars, postVars, mcVars, seqVars, cfVars, distVars, dbVars,
                   variantA, variantB, prior, priorPreset,
                   activeTab, currentPrior,
                   selectedPrior, showCustom, customAlpha, customBeta, chosen>>

InitBoard == InitDash

NextBoard ==
    \/ handlePriorSelect
    \/ handleCustomToggle
    \/ moveSlider
    \/ BoardEditSuccesses
    \/ BoardEditTrials
    \/ BoardPresetChange
    \/ setActiveTab
    \/ handleScenarioSelect
    \/ GenerationTimeout

SpecBoard == InitBoard /\ [][NextBoard]_vars

(***************************************************************************)
(* Properties of the dashboard's shared calculator (under SpecBoard)       *)
(***************************************************************************)
\* the prior a variant's posterior was computed from: posterior minus counts
UsedPrior(variant) ==
    BetaParams(RSub(variant.posterior.alpha, Int2R(variant.successes)),
               RSub(variant.posterior.beta, Int2R(variant.trials - variant.successes)))

\* C21: once the user has chosen a prior in InteractivePriorSelection, the
\* calculator's alpha and beta equal it after every step, and every testData
\* computed by a later step has posteriors computed from it, until another
\* prior is chosen there.
C21_ChosenPriorStaysInForce ==
    [][chosen'.made =>
         /\ BetaParams(alpha', beta') = chosen'.prior
         /\ (testData' # testData =>
               /\ UsedPrior(testData'.variantA) = chosen'.prior
               /\ UsedPrior(testData'.variantB) = chosen'.prior)]_vars

\* C23: the testData analysed is self-consistent: each variant's posterior
\* is the prior recorded in the same testData plus the variant's counts.
C23_TestDataSelfConsistent ==
    testData.present =>
        /\ UsedPrior(testData.variantA) = testData.prior
        /\ UsedPrior(testData.variantB) = testData.prior

(***************************************************************************)
(* Specification SpecSamplerDraws: one call of sampleBeta with a fair      *)
(* random source: in a loop that keeps running, every pair of draws keeps  *)
(* coming up.                                                              *)
(***************************************************************************)
\* a turn of the loop of sampleBetaRejection whose two draws are u1, u2
RejectionTurnWith(u1, u2) ==
    /\ smpPc = "loop"
    /\ smpMethod = "rejection"
    /\ SamplerTurn(u1, u2, RejectionOutcome(smpAlpha, smpBeta, u1, u2))

\* a turn of the loop of sampleBetaCheng whose two draws are u1, u2
ChengTurnWith(u1, u2) ==
    /\ smpPc = "loop"
    /\ smpMethod = "cheng"
    /\ SamplerTurn(u1, u2, ChengOutcome(smpAlpha, smpBeta, u1, u2))

FairDraws ==
    \A u1 \in RandomDraws, u2 \in RandomDraws :
        /\ WF_vars(RejectionTurnWith(u1, u2))
        /\ WF_vars(ChengTurnWith(u1, u2))

SpecSamplerDraws == InitDist /\ [][NextSampler]_vars /\ FairDraws

\* C22: with a fair random source, a call sampleBeta(alpha, beta) with
\* alpha > 0 and beta > 0 that has entered its loop returns a value.
C22_ValidShapesReturn ==
    (smpPc = "loop" /\ RGt(smpAlpha, RZero) /\ RGt(smpBeta, RZero))
        ~> (smpPc = "returned")

(***************************************************************************)
(* sequentialTest with a threshold of one half or less (under SpecSeq)     *)
(***************************************************************************)
\* a call with a threshold <= 0.5 and two non-empty lists has returned
LowThresholdReturned ==
    /\ seqPc = "done"
    /\ RLe(threshold, RHalf)
    /\ Len(dataA) > 0
    /\ Len(dataB) > 0

StoppedAtFirstStep == Len(results) = 1 /\ results[1].shouldStop

SensitivityCalled == op.called /\ op.name = "sensitivityAnalysis"

\* C25: sensitivityAnalysis(successes, trials, priors) returns one result per
\* element of priors, in input order, and the posterior of each is
\* (prior.alpha + successes, prior.beta + trials - successes) for that
\* element, whatever the calculator's alpha and beta.
C25_OneResultPerPriorInOrder ==
    SensitivityCalled =>
        /\ Len(op.result) = Len(op.priors)
        /\ \A k \in 1 .. Len(op.priors) :
             /\ op.result[k].prior = op.priors[k]
             /\ op.result[k].posterior =
                    BetaParams(RAdd(op.priors[k].alpha, Int2R(op.successes)),
                               RAdd(op.priors[k].beta, Int2R(op.trials - op.successes)))

\* 1 success in 3 trials under <<uniform, jeffreys>>, on a calculator set to
\* the Jeffreys prior
C25_Witness ==
    /\ SensitivityCalled
    /\ BetaParams(alpha, beta) = priorPresets.jeffreys
    /\ op.successes = 1 /\ op.trials = 3
    /\ op.priors = <<priorPresets.uniform, priorPresets.jeffreys>>
    /\ op.result[1].posterior = BetaParams(Int2R(2), Int2R(3))
    /\ op.result[2].posterior = BetaParams(Rat(3, 2), Rat(5, 2))

(***************************************************************************)
(* Specification SpecRec: the dashboard's results and getRecommendation.   *)
(* The results carry the values one call of each estimator can return for  *)
(* the calculator's sample count.                                          *)
(***************************************************************************)
\* getRecommendation(), for results that are not null
getRecommendation(res) ==
    IF RGt(res.probBGreater, Rat(8, 10))
    THEN [variant |-> "B",
          confidence |-> "High",
          probability |-> res.probBGreater,
          expectedLoss |-> res.expectedLoss.lossA]
    ELSE IF RLt(res.probBGreater, Rat(2, 10))
    THEN [variant |-> "A",
          confidence |-> "High",
          probability |-> RSub(ROne, res.probBGreater),
          expectedLoss |-> res.expectedLoss.lossB]
    ELSE [variant |-> "Inconclusive",
          confidence |-> "Low",
          probability |-> RMax(res.probBGreater, RSub(ROne, res.probBGreater)),
          expectedLoss |-> RMin(res.expectedLoss.lossA, res.expectedLoss.lossB)]

InitRec == InitMC

\* a render of the dashboard with some testData: results is recomputed by
\* two independent estimator calls, and getRecommendation() is called
Render ==
    /\ \E p \in ProbabilityTable[monteCarloSamples],
          el \in ExpectedLossTable[monteCarloSamples] :
         LET res == [probBGreater |-> p, expectedLoss |-> el]
         IN  op' = [called |-> TRUE, name |-> "getRecommendation",
                    results |-> res, result |-> getRecommendation(res)]
    /\ UNCHANGED <<calcVars, post, prev, ci, mcVars, seqVars, cfVars, distVars, dashVars>>

NextRec == Render

SpecRec == InitRec /\ [][NextRec]_vars

\* C26: when getRecommendation recommends a variant, the expectedLoss it
\* reports is the expected loss of choosing that variant: lossB when B is
\* recommended, lossA when A is recommended.
C26_ReportsLossOfRecommendedVariant ==
    (op.called /\ op.name = "getRecommendation") =>
        /\ op.result.variant = "B" =>
             op.result.expectedLoss = op.results.expectedLoss.lossB
        /\ op.result.variant = "A" =>
             op.result.expectedLoss = op.results.expectedLoss.lossA

(***************************************************************************)
(* Specification SpecSize: calculateSampleSize of                          *)
(* DynamicSampleSizeCalculator.  The power analysis that gives             *)
(* sampleSizePerVariant = Math.ceil(numerator / denominator) is not        *)
(* unfolded: its value is an input, a positive integer.                    *)
(***************************************************************************)
MaxPerVariant == 8

MaxTraffic == 4

MaxDuration == 4

\* Math.ceil(a / b) for integers a >= 0, b > 0
CeilDiv(a, b) == (a + b - 1) \div b

\* calculateSampleSize(), from sampleSizePerVariant on
calculateSampleSize(sampleSizePerVariant, dailyTraffic, maxDuration) ==
    LET totalSampleSize == sampleSizePerVariant * 2
        expectedDuration == CeilDiv(totalSampleSize, dailyTraffic)
        actualDuration == Min(expectedDuration, maxDuration)
        actualSampleSize == Min(totalSampleSize, dailyTraffic * actualDuration)
    IN  [perVariant |-> sampleSizePerVariant,
         total |-> totalSampleSize,
         actualTotal |-> actualSampleSize,
         expectedDuration |-> expectedDuration,
         actualDuration |-> actualDuration,
         dailyTraffic |-> dailyTraffic,
         feasibility |-> IF actualDuration <= maxDuration
                         THEN "feasible" ELSE "challenging"]

InitSize == InitCalc /\ IdlePost /\ IdleMC /\ IdleSeq /\ IdleCF /\ IdleDist /\ IdleDash

\* the effect runs calculateSampleSize() with the component's state
CallCalculateSampleSize ==
    /\ \E n \in 1 .. MaxPerVariant, t \in 1 .. MaxTraffic, d \in 1 .. MaxDuration :
         op' = [called |-> TRUE, name |-> "calculateSampleSize",
                maxDuration |-> d, result |-> calculateSampleSize(n, t, d)]
    /\ UNCHANGED <<calcVars, post, prev, ci, mcVars, seqVars, cfVars, distVars, dashVars>>

NextSize == CallCalculateSampleSize

SpecSize == InitSize /\ [][NextSize]_vars

\* C27: calculateSampleSize reports 'feasible' only when the required
\* duration ceil(total / dailyTraffic) does not exceed maxDuration, and
\* 'challenging' when it does.
C27_FeasibleOnlyWithinMaxDuration ==
    (op.called /\ op.name = "calculateSampleSize") =>
        /\ op.result.feasibility = "feasible" =>
             CeilDiv(op.result.total, op.result.dailyTraffic) <= op.maxDuration
        /\ CeilDiv(op.result.total, op.result.dailyTraffic) > op.maxDuration =>
             op.result.feasibility = "challenging"

(***************************************************************************)
(* Specification SpecDb: calls of the DatabaseService singleton, one       *)
(* completed call per step.  Whether indexedDB.open succeeds is the        *)
(* browser's choice at each initialize().                                  *)
(***************************************************************************)
MaxStored == 2

MaxClock == 2

ResultPayloads == {"resultOfTest1"}

ConfigPayloads == {"configOfTest1"}

\* the defaultValue passed to getPreference, null when omitted
DefaultValues == {"null", "'light'"}

\* initialize(): what it leaves in isInitialized and db, and whether the
\* promise rejects; opens says whether indexedDB.open succeeds, handle whether
\* this.db was set before
initializeWithoutFallback(opens, handle) ==
    [isInitialized |-> opens, db |-> (opens \/ handle), rejected |-> ~opens]

initialize(opens, handle) ==
    [isInitialized |-> TRUE, db |-> (opens \/ handle), rejected |-> FALSE]

\* if (!this.isInitialized) await this.initialize()
ensureInitialized(opens) ==
    IF isInitialized
    THEN [isInitialized |-> TRUE, db |-> db, rejected |-> FALSE]
    ELSE initialize(opens, db)

\* the branch taken by if (this.db) ... else ...
StorageUsed(e) == IF e.db THEN "indexedDB" ELSE "localStorage"

\* the fields after the first line of a method, and the call's record when
\* that line rejects
Entered(e) == isInitialized' = e.isInitialized /\ db' = e.db

RejectedCall(name) == [called |-> TRUE, name |-> name, rejected |-> TRUE, storage |-> "none"]

\* store.add(value) on a store with keyPath 'id': a value whose id is already
\* a key is not added, the request fails after the method has returned
IdbAdd(store, value) ==
    IF \E k \in DOMAIN store : store[k].id = value.id THEN store ELSE Append(store, value)

\* Date.now() at the next call: the same millisecond or a later one
Tick == clock' \in {clock, Min(clock + 1, MaxClock)}

CallInitialize ==
    /\ \E opens \in BOOLEAN :
         LET e == initialize(opens, db)
         IN  /\ Entered(e)
             /\ dbCall' = [called |-> TRUE, name |-> "initialize",
                           rejected |-> e.rejected, storage |-> "none"]
    /\ UNCHANGED <<idb, localStorage, clock, saved, written>>
    /\ UNCHANGED <<calcVars, postVars, mcVars, seqVars, cfVars, distVars,
                   variantA, variantB, prior, priorPreset, testData, boardVars>>

\* saveTestConfig(config)
CallSaveTestConfig ==
    /\ Len(idb.testConfigs) < MaxStored
    /\ Len(localStorage.testConfigs) < MaxStored
    /\ \E opens \in BOOLEAN, config \in ConfigPayloads :
         LET e == ensureInitialized(opens)
             configWithId == [id |-> clock, payload |-> config]
         IN  /\ Entered(e)
             /\ IF e.rejected
                THEN /\ dbCall' = RejectedCall("saveTestConfig")
                     /\ UNCHANGED <<idb, localStorage>>
                ELSE /\ dbCall' = [called |-> TRUE, name |-> "saveTestConfig",
                                   rejected |-> FALSE, storage |-> StorageUsed(e),
                                   result |-> configWithId.id]
                     /\ IF e.db
                        THEN /\ idb' = [idb EXCEPT !.testConfigs = IdbAdd(@, configWithId)]
                             /\ UNCHANGED localStorage
                        ELSE /\ localStorage' = [localStorage EXCEPT
                                                   !.testConfigs = Append(@, configWithId)]
                             /\ UNCHANGED idb
    /\ Tick
    /\ UNCHANGED <<saved, written>>
    /\ UNCHANGED <<calcVars, postVars, mcVars, seqVars, cfVars, distVars,
                   variantA, variantB, prior, priorPreset, testData, boardVars>>

\* getTestConfigs(), for the fields e
getTestConfigs(e) == IF e.db THEN idb.testConfigs ELSE localStorage.testConfigs

CallGetTestConfigs ==
    /\ \E opens \in BOOLEAN :
         LET e == ensureInitialized(opens)
         IN  /\ Entered(e)
             /\ dbCall' = IF e.rejected THEN RejectedCall("getTestConfigs")
                          ELSE [called |-> TRUE, name |-> "getTestConfigs",
                                rejected |-> FALSE, storage |-> StorageUsed(e),
                                result |-> getTestConfigs(e)]
    /\ UNCHANGED <<idb, localStorage, clock, saved, written>>
    /\ UNCHANGED <<calcVars, postVars, mcVars, seqVars, cfVars, distVars,
                   variantA, variantB, prior, priorPreset, testData, boardVars>>

\* saveTestResult(result)
CallSaveTestResult ==
    /\ Len(idb.testResults) < MaxStored
    /\ Len(localStorage.testResults) < MaxStored
    /\ \E opens \in BOOLEAN, result \in ResultPayloads :
         LET e == ensureInitialized(opens)
             resultWithId == [id |-> clock, payload |-> result]
         IN  /\ Entered(e)
             /\ IF e.rejected
                THEN /\ dbCall' = RejectedCall("saveTestResult")
                     /\ UNCHANGED <<idb, localStorage, saved>>
                ELSE /\ dbCall' = [called |-> TRUE, name |-> "saveTestResult",
                                   rejected |-> FALSE, storage |-> StorageUsed(e)]
                     /\ IF e.db
                        THEN /\ idb' = [idb EXCEPT !.testResults = IdbAdd(@, resultWithId)]
                             /\ saved' = IF idb' = idb THEN saved
                                         ELSE saved \cup {[result |-> resultWithId,
                                                           storage |-> "indexedDB"]}
                             /\ UNCHANGED localStorage
                        ELSE /\ localStorage' = [localStorage EXCEPT
                                                   !.testResults = Append(@, resultWithId)]
                             /\ saved' = saved \cup {[result |-> resultWithId,
                                                      storage |-> "localStorage"]}
                             /\ UNCHANGED idb
    /\ Tick
    /\ UNCHANGED written
    /\ UNCHANGED <<calcVars, postVars, mcVars, seqVars, cfVars, distVars,
                   variantA, variantB, prior, priorPreset, testData, boardVars>>

\* updatePreference(key, value)
CallUpdatePreference ==
    /\ \E opens \in BOOLEAN, key \in PreferenceKeys, value \in PreferenceValues :
         LET e == ensureInitialized(opens)
         IN  /\ Entered(e)
             /\ IF e.rejected
                THEN /\ dbCall' = RejectedCall("updatePreference")
                     /\ UNCHANGED <<idb, localStorage, written>>
                ELSE /\ dbCall' = [called |-> TRUE, name |-> "updatePreference",
                                   rejected |-> FALSE, storage |-> StorageUsed(e)]
                     /\ written' = [written EXCEPT ![key] = [value |-> value, storage |-> StorageUsed(e)]]
                     /\ IF e.db
                        THEN /\ idb' = [idb EXCEPT !.userPreferences[key] = value]
                             /\ UNCHANGED localStorage
                        ELSE /\ localStorage' =
                                  [localStorage EXCEPT !.userPreferences =
                                     [k \in PreferenceKeys |->
                                        JSONValue(IF k = key THEN value ELSE @[k])]]
                             /\ UNCHANGED idb
    /\ UNCHANGED <<clock, saved>>
    /\ UNCHANGED <<calcVars, postVars, mcVars, seqVars, cfVars, distVars,
                   variantA, variantB, prior, priorPreset, testData, boardVars>>

\* getPreference(key, defaultValue), for the fields e
getPreference(e, key, defaultValue) ==
    IF e.db
    THEN LET result == idb.userPreferences[key]
         IN  IF result = undefinedValue THEN defaultValue ELSE result
    ELSE LET preferences == localStorage.userPreferences
         IN  IF Falsy(preferences[key]) THEN defaultValue ELSE preferences[key]

CallGetPreference ==
    /\ \E opens \in BOOLEAN, key \in PreferenceKeys, defaultValue \in DefaultValues :
         LET e == ensureInitialized(opens)
         IN  /\ Entered(e)
             /\ dbCall' = IF e.rejected THEN RejectedCall("getPreference")
                          ELSE [called |-> TRUE, name |-> "getPreference",
                                rejected |-> FALSE, storage |-> StorageUsed(e),
                                key |-> key, defaultValue |-> defaultValue,
                                result |-> getPreference(e, key, defaultValue)]
    /\ UNCHANGED <<idb, localStorage, clock, saved, written>>
    /\ UNCHANGED <<calcVars, postVars, mcVars, seqVars, cfVars, distVars,
                   variantA, variantB, prior, priorPreset, testData, boardVars>>

\* exportData(): configs from getTestConfigs(), results from localStorage
exportData(e) ==
    [configs |-> getTestConfigs(e), results |-> localStorage.testResults]

CallExportData ==
    /\ \E opens \in BOOLEAN :
         LET e == ensureInitialized(opens)
         IN  /\ Entered(e)
             /\ dbCall' = IF e.rejected THEN RejectedCall("exportData")
                          ELSE [called |-> TRUE, name |-> "exportData",
                                rejected |-> FALSE, storage |-> StorageUsed(e),
                                result |-> exportData(e)]
    /\ UNCHANGED <<idb, localStorage, clock, saved, written>>
    /\ UNCHANGED <<calcVars, postVars, mcVars, seqVars, cfVars, distVars,
                   variantA, variantB, prior, priorPreset, testData, boardVars>>

\* clearAllData()
CallClearAllData ==
    /\ \E opens \in BOOLEAN :
         LET e == ensureInitialized(opens)
         IN  /\ Entered(e)
             /\ IF e.rejected
                THEN /\ dbCall' = RejectedCall("clearAllData")
                     /\ UNCHANGED <<idb, localStorage, saved, written>>
                ELSE /\ dbCall' = [called |-> TRUE, name |-> "clearAllData",
                                   rejected |-> FALSE, storage |-> StorageUsed(e)]
                     /\ saved' = {}
                     /\ written' = NothingWritten
                     /\ IF e.db
                        THEN idb' = EmptyStores /\ UNCHANGED localStorage
                        ELSE localStorage' = EmptyStores /\ UNCHANGED idb
    /\ UNCHANGED clock
    /\ UNCHANGED <<calcVars, postVars, mcVars, seqVars, cfVars, distVars,
                   variantA, variantB, prior, priorPreset, testData, boardVars>>

InitDb == InitDash

NextDb ==
    \/ CallInitialize
    \/ CallSaveTestConfig
    \/ CallGetTestConfigs
    \/ CallSaveTestResult
    \/ CallUpdatePreference
    \/ CallGetPreference
    \/ CallExportData
    \/ CallClearAllData

SpecDb == InitDb /\ [][NextDb]_vars


\* the methods that choose between this.db and the localStorage fallback
StorageMethods ==
    {"saveTestConfig", "getTestConfigs", "saveTestResult", "updatePreference",
     "getPreference", "exportData", "clearAllData"}

\* C28: once a call of the service has completed, isInitialized is true
\* whether or not IndexedDB could be opened; neither initialize() nor the
\* initialize() a method awaits first rejects; and while there is no database
\* handle every save/get/clear method takes the localStorage branch.
C28_InitializeFallsBackToLocalStorage ==
    dbCall.called =>
        /\ isInitialized
        /\ ~dbCall.rejected
        /\ (dbCall.name \in StorageMethods /\ ~db) => dbCall.storage = "localStorage"

\* IndexedDB could not be opened, and a result was saved to localStorage
C28_Witness ==
    /\ dbCall.called
    /\ dbCall.name = "saveTestResult"
    /\ isInitialized
    /\ ~db
    /\ dbCall.storage = "localStorage"
    /\ Len(localStorage.testResults) > 0
    /\ Len(idb.testResults) = 0

Stored(store) == {store[k] : k \in DOMAIN store}

\* C29: every result stored by a completed saveTestResult and not cleared
\* since is among the results of exportData(), when exportData() runs in the
\* storage mode the result was saved in.
C29_ExportContainsSavedResults ==
    (dbCall.called /\ dbCall.name = "exportData" /\ ~dbCall.rejected) =>
        \A s \in saved :
            s.storage = dbCall.storage => s.result \in Stored(dbCall.result.results)

\* C30: getPreference(key, defaultValue) returns the value of the last
\* completed updatePreference(key, value), falsy or not, when it runs in the
\* storage mode that value was written in.
C30_GetPreferenceReturnsStoredValue ==
    (dbCall.called /\ dbCall.name = "getPreference" /\ ~dbCall.rejected) =>
        (written[dbCall.key].storage = dbCall.storage
            => dbCall.result = written[dbCall.key].value)

====
